---- MODULE Spec2Model ----
(***************************************************************************)
(* State-machine model of the WEF backend (Express + Mongoose + Stripe).  *)
(*                                                                         *)
(* The document store is the only shared state.  Every route handler is   *)
(* one action; where a claim is about interleaved requests the handler is *)
(* split at its awaits (load / save).  Each subsystem has its own         *)
(* specification so that the state spaces stay small:                     *)
(*   SpecDonation      campaigns, payment intents, confirm + webhook      *)
(*   SpecDonationConc  the webhook handler split at its awaits            *)
(*   SpecPosts         posts, follow graph, bookmarks, read paths         *)
(*   SpecLike          posts and the like toggle                          *)
(*   SpecSoftDelete    one post and every operation on it by id           *)
(*   SpecTrending      the trending pipeline over engaged posts           *)
(*   SpecGroups        groups, membership, group posts                    *)
(*   SpecJoinConc      the join handler split at its awaits               *)
(*   SpecFollow        follow / unfollow next to the posts               *)
(*   SpecCampaign      campaign creation, edits, the daysLeft clock       *)
(*   SpecAuth          accounts, registration and login                   *)
(*   SpecToken         tokens presented to refresh and to the middleware  *)
(*   SpecPremium       isPremium under billing events and user requests   *)
(*   SpecReset         password-reset tokens and the minutes they live    *)
(*   SpecSubscription  checkout and the subscription webhooks             *)
(*   SpecWebhook       the webhook route, signed and unsigned requests    *)
(***************************************************************************)
EXTENDS Integers, Sequences, FiniteSets, TLC

VARIABLES
  campaigns,   \* Campaign collection: CampaignIds -> campaign document
  intents,     \* Stripe's payment intents, in creation order (id = index)
  delivered,   \* per intent: payment_intent.succeeded deliveries handled
  confirmed,   \* per intent: accepted POST /payments/confirm-donation calls
  wh,          \* in-flight webhook handlers (SpecDonationConc): Handlers -> frame
  posts,       \* Post collection, in creation order (id = index)
  followers,   \* User.followers: Users -> sequence of user ids
  following,   \* User.following: Users -> sequence of user ids
  likeLog,     \* the latest like responses of one user on one post, in a row
  groups,      \* Group collection: GroupIds -> group document
  userGroups,  \* User.groups: Users -> sequence of group ids
  joins,       \* in-flight join requests (SpecJoinConc): Handlers -> frame
  accounts,    \* User collection, in creation order (_id = index)
  now,         \* the clock (Date.now()), in minutes
  reply,       \* the answer to the latest auth, token or webhook request
  held,        \* the tokens the client holds: the latest ones issued
  resets       \* password-reset tokens issued, in order (token = index)

donationVars == <<campaigns, intents, delivered, confirmed, wh>>

postVars == <<posts, followers, following, likeLog>>

groupVars == <<groups, userGroups>>

authVars == <<accounts, now, reply, held>>

vars == <<campaigns, intents, delivered, confirmed, wh,
          posts, followers, following, likeLog, groups, userGroups, joins,
          accounts, now, reply, held, resets>>

\* what the actions of one subsystem leave alone
notDonation == <<postVars, groupVars, authVars, joins, resets>>
notSocial == <<donationVars, authVars, joins, resets>>
notAuth == <<donationVars, postVars, groupVars, joins, resets>>

(***************************************************************************)
(* Bounds of the model and constants of the program                       *)
(***************************************************************************)
Users == {"u1", "u2"}
CampaignIds == {"c1"}
Handlers == {"h1", "h2"}

\* goal: min 100 (schema) / custom(v => v >= 100) (route)
MinGoal == 100
\* donation amount: min 1 (schema) / amount < 1 rejected (route)
MinDonation == 1
\* dollars -> cents factor of Math.round(amount * 100) and amount / 100
CentsPerDollar == 100

\* request inputs (dollars); 0 and 50 exercise the validation rejections
DonationInputs == {0, 40, 60}
GoalInputs == {50, 100}

MaxIntents == 2      \* payment intents created
MaxDonations == 3    \* donation records per campaign
MaxDeliveries == 2   \* deliveries of one payment_intent.succeeded event
MaxPosts == 2        \* posts created
MaxPending == 2      \* pending join requests of one group
MaxComments == 2     \* comments of one post
MaxShares == 2       \* shares of one post
MaxTime == 35        \* last day of the clock

\* the clock counts minutes
MinutesPerDay == 1440

\* an endDate after the last day of the clock
LongEndDate == (MaxTime + 1) * MinutesPerDay
MaxUsers == 2        \* registered users
MaxResets == 2       \* password-reset tokens issued

(***************************************************************************)
(* Campaign model (src/models/Campaign.js)                                *)
(***************************************************************************)
NoCampaign ==
  [exists |-> FALSE, organizer |-> "u1", goal |-> 0, raised |-> 0,
   donations |-> <<>>, donorCount |-> 0, status |-> "draft",
   endDate |-> 0, title |-> "", tags |-> <<>>]

\* the title every campaign of the model is created with
FirstTitle == "Clean water for all"

\* new Campaign({... goal, organizer, endDate: new Date(endDate),
\* status: 'active'}) with schema defaults
NewCampaign(u, goal, endDate) ==
  [exists |-> TRUE, organizer |-> u, goal |-> goal, raised |-> 0,
   donations |-> <<>>, donorCount |-> 0, status |-> "active",
   endDate |-> endDate, title |-> FirstTitle, tags |-> <<>>]

RECURSIVE SumCompleted(_)
\* sum of the amounts of the donations whose status is completed
SumCompleted(ds) ==
  IF ds = <<>> THEN 0
  ELSE (IF Head(ds).status = "completed" THEN Head(ds).amount ELSE 0)
       + SumCompleted(Tail(ds))

\* new Set(donations.map(d => d.donor.toString())).size
DistinctDonors(ds) == Cardinality({ds[i].donor : i \in 1..Len(ds)})

\* number of donation records carrying payment intent id pi
CountPI(ds, pi) ==
  Cardinality({i \in 1..Len(ds) : ds[i].stripePaymentIntentId = pi})

\* the donation document both recording paths hand to addDonation
Donation(intent, pi) ==
  [donor |-> intent.user, amount |-> intent.amount \div CentsPerDollar,
   stripePaymentIntentId |-> pi, status |-> "completed"]

\* mutant: the goal test written with > instead of >=
AddDonation_StrictGoal(c, d) ==
  LET ds == Append(c.donations, d)
      raised == c.raised + d.amount
  IN [c EXCEPT !.donations = ds, !.raised = raised,
               !.donorCount = DistinctDonors(ds),
               !.status = IF raised > c.goal THEN "completed" ELSE @]

\* mutant: raised overwritten with the last amount instead of accumulated
AddDonation_Overwrite(c, d) ==
  LET ds == Append(c.donations, d)
      raised == d.amount
  IN [c EXCEPT !.donations = ds, !.raised = raised,
               !.donorCount = DistinctDonors(ds),
               !.status = IF raised >= c.goal THEN "completed" ELSE @]

\* mutant: donorCount counts records instead of distinct donors
AddDonation_CountRecords(c, d) ==
  LET ds == Append(c.donations, d)
      raised == c.raised + d.amount
  IN [c EXCEPT !.donations = ds, !.raised = raised,
               !.donorCount = Len(ds),
               !.status = IF raised >= c.goal THEN "completed" ELSE @]

\* campaignSchema.methods.addDonation, up to (not including) this.save():
\* the in-memory document after push / raised += / donorCount / goal check
AddDonation(c, d) ==
  LET ds == Append(c.donations, d)
      raised == c.raised + d.amount
  IN [c EXCEPT !.donations = ds, !.raised = raised,
               !.donorCount = DistinctDonors(ds),
               !.status = IF raised >= c.goal THEN "completed" ELSE @]

\* document.save() of a loaded campaign.  Mongoose sends the delta of the
\* document against what was loaded: array pushes as $push (no version
\* check), changed scalars as $set.  A donation below the schema minimum
\* fails validation and nothing is written.
Save(stored, loaded, doc) ==
  LET n == Len(loaded.donations)
      pushed == SubSeq(doc.donations, n + 1, Len(doc.donations))
      valid == \A i \in 1..Len(pushed) : pushed[i].amount >= MinDonation
  IN IF ~valid THEN stored
     ELSE [stored EXCEPT
             !.donations = @ \o pushed,
             !.raised = IF doc.raised # loaded.raised THEN doc.raised ELSE @,
             !.donorCount =
               IF doc.donorCount # loaded.donorCount THEN doc.donorCount ELSE @,
             !.status = IF doc.status # loaded.status THEN doc.status ELSE @]

\* mutant: the webhook handler without its idempotency check
HandleDonationSuccess_NoCheck(stored, doc, intent, pi) ==
  Save(stored, doc, AddDonation(doc, Donation(intent, pi)))

\* handleDonationSuccess after Campaign.findById returned `doc`: look for a
\* donation with this payment intent id, add one if there is none, save.
\* `stored` is the collection's document at the time of the save.
HandleDonationSuccess(stored, doc, intent, pi) ==
  LET existingDonation ==
        \E i \in 1..Len(doc.donations) :
          doc.donations[i].stripePaymentIntentId = pi
  IN IF existingDonation THEN stored
     ELSE Save(stored, doc, AddDonation(doc, Donation(intent, pi)))

\* POST /payments/confirm-donation after the intent was retrieved and found
\* succeeded and the campaign was loaded: addDonation, with no look-up of an
\* existing record
ConfirmDonationRecord(stored, doc, intent, pi) ==
  Save(stored, doc, AddDonation(doc, Donation(intent, pi)))

\* status of POST /payments/donate
DonateStatus(cid, amount) ==
  IF amount = 0 THEN 400                       \* !campaignId || !amount
  ELSE IF amount < MinDonation THEN 400
  ELSE IF ~campaigns[cid].exists THEN 404
  ELSE IF campaigns[cid].status # "active" THEN 400
  ELSE 200

\* status of POST /campaigns (goal rule of the validation chain)
CreateCampaignStatus(goal) == IF goal >= MinGoal THEN 201 ELSE 400

IdleFrame == [pc |-> "idle", pi |-> 0, doc |-> NoCampaign]

DonationInit ==
  /\ campaigns = [c \in CampaignIds |-> NoCampaign]
  /\ intents = <<>>
  /\ delivered = <<>>
  /\ confirmed = <<>>
  /\ wh = [h \in Handlers |-> IdleFrame]

(***************************************************************************)
(* Campaign and payment actions (src/routes/payments.js)                  *)
(***************************************************************************)
\* POST /campaigns
CreateCampaign(u, cid, goal, endDate) ==
  /\ ~campaigns[cid].exists
  /\ campaigns' = IF CreateCampaignStatus(goal) = 201
                  THEN [campaigns EXCEPT ![cid] = NewCampaign(u, goal, endDate)]
                  ELSE campaigns
  /\ UNCHANGED <<intents, delivered, confirmed, wh, notDonation>>

\* POST /payments/donate: creates a payment intent at Stripe
Donate(u, cid, amount) ==
  /\ Len(intents) < MaxIntents
  /\ IF DonateStatus(cid, amount) = 200
     THEN /\ intents' = Append(intents,
                 [campaign |-> cid, user |-> u,
                  amount |-> amount * CentsPerDollar,
                  status |-> "requires_payment_method"])
          /\ delivered' = Append(delivered, 0)
          /\ confirmed' = Append(confirmed, 0)
     ELSE UNCHANGED <<intents, delivered, confirmed>>
  /\ UNCHANGED <<campaigns, wh, notDonation>>

\* Stripe: the donor pays, the intent succeeds
PaymentSucceeds(pi) ==
  /\ intents[pi].status = "requires_payment_method"
  /\ intents' = [intents EXCEPT ![pi].status = "succeeded"]
  /\ UNCHANGED <<campaigns, delivered, confirmed, wh, notDonation>>

\* POST /payments/confirm-donation, handled without interleaving
ConfirmDonation(pi) ==
  LET intent == intents[pi]
      cid == intent.campaign
  IN /\ Len(campaigns[cid].donations) < MaxDonations
     /\ IF intent.status # "succeeded" \/ ~campaigns[cid].exists
        THEN UNCHANGED <<campaigns, confirmed>>
        ELSE /\ campaigns' = [campaigns EXCEPT ![cid] =
                    ConfirmDonationRecord(@, @, intent, pi)]
             /\ confirmed' = [confirmed EXCEPT ![pi] = @ + 1]
     /\ UNCHANGED <<intents, delivered, wh, notDonation>>

\* POST /payments/webhook with a verified payment_intent.succeeded event,
\* handled without interleaving
WebhookPaymentSucceeded(pi) ==
  LET intent == intents[pi]
      cid == intent.campaign
  IN /\ intent.status = "succeeded"
     /\ delivered[pi] < MaxDeliveries
     /\ Len(campaigns[cid].donations) < MaxDonations
     /\ delivered' = [delivered EXCEPT ![pi] = @ + 1]
     /\ campaigns' = IF ~campaigns[cid].exists THEN campaigns
                     ELSE [campaigns EXCEPT ![cid] =
                             HandleDonationSuccess(@, @, intent, pi)]
     /\ UNCHANGED <<intents, confirmed, wh, notDonation>>

\* the same handler, first await: Campaign.findById resolves
WebhookLoad(h, pi) ==
  LET intent == intents[pi]
      cid == intent.campaign
  IN /\ wh[h].pc = "idle"
     /\ intent.status = "succeeded"
     /\ delivered[pi] < MaxDeliveries
     /\ delivered' = [delivered EXCEPT ![pi] = @ + 1]
     /\ wh' = IF ~campaigns[cid].exists THEN wh
              ELSE [wh EXCEPT ![h] =
                      [pc |-> "loaded", pi |-> pi, doc |-> campaigns[cid]]]
     /\ UNCHANGED <<campaigns, intents, confirmed, notDonation>>

\* the same handler, second await: the check and addDonation ran on the
\* loaded document, save() reaches the store
WebhookSave(h) ==
  LET pi == wh[h].pi
      intent == intents[pi]
      cid == intent.campaign
  IN /\ wh[h].pc = "loaded"
     /\ campaigns' = [campaigns EXCEPT ![cid] =
                        HandleDonationSuccess(@, wh[h].doc, intent, pi)]
     /\ wh' = [wh EXCEPT ![h] = IdleFrame]
     /\ UNCHANGED <<intents, delivered, confirmed, notDonation>>

DonationStep ==
  \/ \E u \in Users, cid \in CampaignIds, goal \in GoalInputs :
       CreateCampaign(u, cid, goal, LongEndDate)
  \/ \E u \in Users, cid \in CampaignIds, amount \in DonationInputs :
       Donate(u, cid, amount)
  \/ \E pi \in 1..Len(intents) : PaymentSucceeds(pi)
  \/ \E pi \in 1..Len(intents) : ConfirmDonation(pi)
  \/ \E pi \in 1..Len(intents) : WebhookPaymentSucceeded(pi)

DonationConcStep ==
  \/ \E u \in Users, cid \in CampaignIds, goal \in GoalInputs :
       CreateCampaign(u, cid, goal, LongEndDate)
  \/ \E u \in Users, cid \in CampaignIds, amount \in DonationInputs :
       Donate(u, cid, amount)
  \/ \E pi \in 1..Len(intents) : PaymentSucceeds(pi)
  \/ \E h \in Handlers, pi \in 1..Len(intents) : WebhookLoad(h, pi)
  \/ \E h \in Handlers : WebhookSave(h)

(***************************************************************************)
(* Donation claims                                                         *)
(***************************************************************************)
Donations(cid) == campaigns[cid].donations

RECURSIVE PaidOnce(_, _)
\* dollars of the first n intents of campaign cid whose success event was
\* delivered at least once, each counted once
PaidOnce(cid, n) ==
  IF n = 0 THEN 0
  ELSE (IF intents[n].campaign = cid /\ delivered[n] >= 1
        THEN intents[n].amount \div CentsPerDollar ELSE 0)
       + PaidOnce(cid, n - 1)

RECURSIVE PaidRecorded(_, _)
\* dollars of the first n intents of campaign cid that have a donation
\* record, each counted once
PaidRecorded(cid, n) ==
  IF n = 0 THEN 0
  ELSE (IF intents[n].campaign = cid /\ CountPI(Donations(cid), n) >= 1
        THEN intents[n].amount \div CentsPerDollar ELSE 0)
       + PaidRecorded(cid, n - 1)

NoConfirmCalls == \A pi \in 1..Len(intents) : confirmed[pi] = 0

HandlersIdle == \A h \in Handlers : wh[h].pc = "idle"

\* C1: when payment_intent.succeeded is delivered twice, one delivery after
\* the other, for the same payment intent, the campaign holds exactly one
\* donation record with that id and raised grew by the amount once.
C1_SequentialRedeliveryRecordsOnce ==
  /\ \A pi \in 1..Len(intents) :
       (delivered[pi] >= 1 /\ confirmed[pi] = 0)
         => CountPI(Donations(intents[pi].campaign), pi) = 1
  /\ NoConfirmCalls =>
       \A cid \in CampaignIds :
         campaigns[cid].raised = PaidOnce(cid, Len(intents))

C1_Witness ==
  \E pi \in 1..Len(intents) :
    /\ delivered[pi] = 2
    /\ NoConfirmCalls
    /\ CountPI(Donations(intents[pi].campaign), pi) = 1
    /\ campaigns[intents[pi].campaign].raised
         = intents[pi].amount \div CentsPerDollar

\* C2: donation recording is idempotent per payment intent id on every path:
\* after any sequence of confirm-donation calls and payment_intent.succeeded
\* events no campaign holds two records with one id, and each payment is
\* counted in raised at most once.
C2_IdempotentOnEveryPath ==
  \A cid \in CampaignIds :
    /\ \A pi \in 1..Len(intents) : CountPI(Donations(cid), pi) <= 1
    /\ campaigns[cid].raised <= PaidRecorded(cid, Len(intents))

\* C3: when two deliveries of one payment_intent.succeeded event are handled
\* concurrently (load, look up, append, save interleave), the campaign still
\* ends with one record for that payment and raised incremented once.
C3_ConcurrentRedeliveryRecordsOnce ==
  HandlersIdle =>
    /\ \A pi \in 1..Len(intents) :
         delivered[pi] >= 1 => CountPI(Donations(intents[pi].campaign), pi) = 1
    /\ \A cid \in CampaignIds :
         campaigns[cid].raised = PaidOnce(cid, Len(intents))

\* C4: after any sequence of donation recordings, raised equals the sum of
\* the amounts of the campaign's completed donations.
C4_RaisedIsSumOfCompleted ==
  \A cid \in CampaignIds :
    campaigns[cid].raised = SumCompleted(Donations(cid))

C4_Witness ==
  \E cid \in CampaignIds :
    /\ Len(Donations(cid)) >= 2
    /\ Donations(cid)[1].amount # Donations(cid)[2].amount
    /\ campaigns[cid].raised = Donations(cid)[1].amount + Donations(cid)[2].amount

\* C5: whenever addDonation leaves raised >= goal (also exactly equal) the
\* status is completed after the call; while raised stays below goal,
\* addDonation leaves the status as it was.
C5_CompletedOnceGoalReached ==
  [][\A cid \in CampaignIds :
       campaigns'[cid].donations # campaigns[cid].donations =>
         /\ campaigns'[cid].raised >= campaigns'[cid].goal
              => campaigns'[cid].status = "completed"
         /\ campaigns'[cid].raised < campaigns'[cid].goal
              => campaigns'[cid].status = campaigns[cid].status]_vars

C5_Witness ==
  \E cid \in CampaignIds :
    /\ campaigns[cid].exists
    /\ campaigns[cid].raised = campaigns[cid].goal
    /\ campaigns[cid].status = "completed"

\* C6: after every addDonation, donorCount is the number of distinct donors
\* among the donation records, not the number of records.
C6_DonorCountIsDistinctDonors ==
  \A cid \in CampaignIds :
    campaigns[cid].donorCount =
      Cardinality({u \in Users :
                     \E i \in 1..Len(Donations(cid)) : Donations(cid)[i].donor = u})

C6_Witness ==
  \E cid \in CampaignIds :
    /\ Len(Donations(cid)) >= 2
    /\ campaigns[cid].donorCount = 1

(***************************************************************************)
(* Posts and the follow graph (src/README.md from line 191: routes/posts;  *)
(* src/unnamed/part_002: models/Post; src/unnamed/part_000: routes/users)  *)
(***************************************************************************)
\* req.userId of a request that optionalAuth let through unauthenticated
Anon == "anon"
Viewers == Users \cup {Anon}

\* post.group === null
NoGroup == "none"
GroupIds == {"g1"}

\* visibility values POST /posts accepts, and those the schema enum accepts
CreateVisibilities == {"public", "followers", "private"}
Visibilities == {"public", "followers", "group", "private"}

SetOf(seq) == {seq[i] : i \in 1..Len(seq)}

\* $addToSet and $pull on an array of ids
AddToSet(seq, x) == IF x \in SetOf(seq) THEN seq ELSE Append(seq, x)
Pull(seq, x) == SelectSeq(seq, LAMBDA y : y # x)

\* the content every post of the model is created with, and the content
\* of PUT /posts/:id requests
FirstContent == "hello"
EditedContent == "hello again"

\* new Post({author, content, visibility, group}) with schema defaults and
\* the createdAt timestamp
NewPost(u, visibility, group) ==
  [author |-> u, visibility |-> visibility, group |-> group,
   isDeleted |-> FALSE, likes |-> <<>>, bookmarkedBy |-> <<>>,
   content |-> FirstContent, comments |-> <<>>, shares |-> <<>>,
   createdAt |-> now]

PostIds == 1..Len(posts)

\* postSchema.methods.isLikedBy / isBookmarkedBy
IsLikedBy(post, u) == \E i \in 1..Len(post.likes) : post.likes[i] = u
IsBookmarkedBy(post, u) ==
  \E i \in 1..Len(post.bookmarkedBy) : post.bookmarkedBy[i] = u

\* mutant: like as a counter, every call pushes
ToggleLike_AlwaysPush(post, u) == [post EXCEPT !.likes = Append(@, u)]

\* POST /posts/:id/like, the branch on isLiked: filter the user out or push
ToggleLike(post, u) ==
  IF IsLikedBy(post, u)
  THEN [post EXCEPT !.likes = SelectSeq(@, LAMBDA id : id # u)]
  ELSE [post EXCEPT !.likes = Append(@, u)]

\* POST /posts/:id/bookmark, the branch on isBookmarked
ToggleBookmark(post, u) ==
  IF IsBookmarkedBy(post, u)
  THEN [post EXCEPT !.bookmarkedBy = SelectSeq(@, LAMBDA id : id # u)]
  ELSE [post EXCEPT !.bookmarkedBy = Append(@, u)]

\* mutant: the by-id handlers without their test of isDeleted
PostFound_IgnoresDeleted(id) == id \in PostIds

\* what every by-id handler tests first: !post || post.isDeleted
PostFound(id) == id \in PostIds /\ ~posts[id].isDeleted

\* the status like, comment, bookmark, share and GET /posts/:id answer
ByIdStatus(id) == IF ~PostFound(id) THEN 404 ELSE 200

\* the status PUT /posts/:id and DELETE /posts/:id answer
OwnerStatus(u, id) ==
  IF ~PostFound(id) THEN 404
  ELSE IF posts[id].author # u THEN 403
  ELSE 200

NoLike == <<>>

PostsInit ==
  /\ posts = <<>>
  /\ followers = [u \in Users |-> <<>>]
  /\ following = [u \in Users |-> <<>>]
  /\ likeLog = NoLike

(***************************************************************************)
(* Read paths: the ids of the posts each one returns to a viewer           *)
(***************************************************************************)
\* GET /users/:id/posts: the visibility filter chosen from the relationship
VisibilityFilter(viewer, author) ==
  IF viewer # Anon /\ viewer = author THEN {"public", "followers", "private"}
  ELSE IF viewer # Anon /\ viewer \in SetOf(followers[author])
       THEN {"public", "followers"}
  ELSE {"public"}

\* GET /users/:id/posts
GetUserPosts(viewer, author) ==
  {id \in PostIds :
     /\ posts[id].author = author
     /\ ~posts[id].isDeleted
     /\ posts[id].visibility \in VisibilityFilter(viewer, author)
     /\ posts[id].group = NoGroup}

\* Post.getFeed, behind GET /posts/feed (authenticate)
GetFeed(viewer) ==
  IF viewer = Anon THEN {}
  ELSE {id \in PostIds :
          /\ ~posts[id].isDeleted
          /\ posts[id].visibility = "public"
          /\ posts[id].group = NoGroup}

\* Post.getTrending, behind GET /posts/trending: the $match stage
GetTrending(viewer) ==
  {id \in PostIds :
     /\ posts[id].createdAt >= now - MinutesPerDay
     /\ ~posts[id].isDeleted
     /\ posts[id].visibility = "public"
     /\ posts[id].group = NoGroup}

\* mutant: the engagement of the $addFields stage without its weights
Engagement_LikesOnly(post) == Len(post.likes)

\* the $addFields stage of getTrending:
\* $size likes + 2 * $size comments + 3 * $size shares
Engagement(post) ==
  Len(post.likes) + 2 * Len(post.comments) + 3 * Len(post.shares)

\* the $sort stage, { engagement: -1 }: every order of the matched posts
\* with no post before one of higher engagement (ties in any order)
SortByEngagement(ids) ==
  {f \in [1..Cardinality(ids) -> ids] :
     \A i \in DOMAIN f, j \in DOMAIN f :
       i < j => /\ f[i] # f[j]
                /\ Engagement(posts[f[i]]) >= Engagement(posts[f[j]])}

\* the $limit stage
Limit(seq, limit) ==
  [i \in 1..(IF Len(seq) < limit THEN Len(seq) ELSE limit) |-> seq[i]]

\* Post.getTrending(limit): the answers the pipeline can give
GetTrendingPosts(limit) ==
  {Limit(f, limit) : f \in SortByEngagement(GetTrending(Anon))}

\* parseInt(req.query.limit) || 10
DefaultLimit == 10
TrendingLimits == {1, 2, DefaultLimit}

\* GET /posts/:id
GetPost(viewer, id) == IF PostFound(id) THEN {id} ELSE {}

\* the query of the GET /posts/bookmarks handler
BookmarksQuery(viewer) ==
  {id \in PostIds : IsBookmarkedBy(posts[id], viewer) /\ ~posts[id].isDeleted}

\* GET /posts/bookmarks as the router answers it: the path is registered
\* after GET /posts/:id, which takes the request with id = 'bookmarks';
\* Post.findById rejects the id (CastError) and the answer is 500, no posts
GetBookmarks(viewer) == {}

(***************************************************************************)
(* Post and follow actions                                                 *)
(***************************************************************************)
\* POST /posts
CreatePost(u, visibility, group) ==
  /\ Len(posts) < MaxPosts
  /\ posts' = IF visibility \in CreateVisibilities
              THEN Append(posts, NewPost(u, visibility, group))
              ELSE posts
  /\ likeLog' = NoLike
  /\ UNCHANGED <<followers, following, groupVars, notSocial>>

\* PUT /posts/:id with a visibility in the body
EditPost(u, id, visibility) ==
  /\ id \in PostIds
  /\ posts' = IF OwnerStatus(u, id) = 200 /\ visibility \in Visibilities
              THEN [posts EXCEPT ![id].visibility = visibility]
              ELSE posts
  /\ likeLog' = NoLike
  /\ UNCHANGED <<followers, following, groupVars, notSocial>>

\* DELETE /posts/:id
DeletePost(u, id) ==
  /\ id \in PostIds
  /\ posts' = IF OwnerStatus(u, id) = 200
              THEN [posts EXCEPT ![id].isDeleted = TRUE]
              ELSE posts
  /\ likeLog' = NoLike
  /\ UNCHANGED <<followers, following, groupVars, notSocial>>

\* POST /posts/:id/like; the response {liked, likeCount} is logged together
\* with the likes the handler loaded
LikePost(u, id) ==
  /\ id \in PostIds
  /\ IF ByIdStatus(id) = 200
     THEN LET after == ToggleLike(posts[id], u)
              entry == [post |-> id, user |-> u, before |-> posts[id].likes,
                        liked |-> ~IsLikedBy(posts[id], u),
                        likeCount |-> Len(after.likes)]
          IN /\ posts' = [posts EXCEPT ![id] = after]
             /\ likeLog' =
                  IF likeLog # NoLike /\ likeLog[Len(likeLog)].post = id
                       /\ likeLog[Len(likeLog)].user = u
                  THEN <<likeLog[Len(likeLog)], entry>>
                  ELSE <<entry>>
     ELSE /\ likeLog' = NoLike
          /\ UNCHANGED posts
  /\ UNCHANGED <<followers, following, groupVars, notSocial>>

\* POST /posts/:id/bookmark
BookmarkPost(u, id) ==
  /\ id \in PostIds
  /\ posts' = IF ByIdStatus(id) = 200
              THEN [posts EXCEPT ![id] = ToggleBookmark(@, u)]
              ELSE posts
  /\ likeLog' = NoLike
  /\ UNCHANGED <<followers, following, groupVars, notSocial>>

\* mutant: the follow route without the comparison with req.userId
FollowStatus_NoSelfCheck(u, target) ==
  IF u \in SetOf(followers[target]) THEN 400 ELSE 200

\* PUT /posts/:id with content in the body
EditContent(u, id, content) ==
  /\ id \in PostIds
  /\ posts' = IF OwnerStatus(u, id) = 200
              THEN [posts EXCEPT ![id].content = content]
              ELSE posts
  /\ likeLog' = NoLike
  /\ UNCHANGED <<followers, following, groupVars, notSocial>>

\* POST /posts/:id/comment
CommentPost(u, id) ==
  /\ id \in PostIds
  /\ Len(posts[id].comments) < MaxComments
  /\ posts' = IF ByIdStatus(id) = 200
              THEN [posts EXCEPT ![id].comments =
                      Append(@, [author |-> u, createdAt |-> now])]
              ELSE posts
  /\ likeLog' = NoLike
  /\ UNCHANGED <<followers, following, groupVars, notSocial>>

\* DELETE /posts/:id/comment/:commentId: the status of the answer; the
\* comment id names the k-th comment, or none
DeleteCommentStatus(u, id, k) ==
  IF ~PostFound(id) THEN 404
  ELSE IF k \notin 1..Len(posts[id].comments) THEN 404
  ELSE IF posts[id].comments[k].author # u /\ posts[id].author # u THEN 403
  ELSE 200

\* DELETE /posts/:id/comment/:commentId
DeleteComment(u, id, k) ==
  /\ id \in PostIds
  /\ posts' = IF DeleteCommentStatus(u, id, k) = 200
              THEN [posts EXCEPT ![id].comments =
                      SubSeq(@, 1, k - 1) \o SubSeq(@, k + 1, Len(@))]
              ELSE posts
  /\ likeLog' = NoLike
  /\ UNCHANGED <<followers, following, groupVars, notSocial>>

\* POST /posts/:id/share
SharePost(u, id) ==
  /\ id \in PostIds
  /\ Len(posts[id].shares) < MaxShares
  /\ posts' = IF ByIdStatus(id) = 200
              THEN [posts EXCEPT ![id].shares =
                      Append(@, [user |-> u, sharedAt |-> now])]
              ELSE posts
  /\ likeLog' = NoLike
  /\ UNCHANGED <<followers, following, groupVars, notSocial>>

\* POST /users/:id/follow, the status it answers: 400 for oneself, 400 when
\* followers of the target already includes the caller (every id of Users
\* is a user, so findById finds the target)
FollowStatus(u, target) ==
  IF target = u THEN 400
  ELSE IF u \in SetOf(followers[target]) THEN 400
  ELSE 200

\* POST /users/:id/follow
Follow(u, target) ==
  /\ IF FollowStatus(u, target) # 200
     THEN UNCHANGED <<followers, following>>
     ELSE /\ followers' = [followers EXCEPT ![target] = AddToSet(@, u)]
          /\ following' = [following EXCEPT ![u] = AddToSet(@, target)]
  /\ likeLog' = NoLike
  /\ UNCHANGED <<posts, groupVars, notSocial>>

\* mutant: unfollow without the $pull on the caller's following list
Unfollow_FollowersOnly(u, target) ==
  /\ followers' = [followers EXCEPT ![target] = Pull(@, u)]
  /\ likeLog' = NoLike
  /\ UNCHANGED <<following, posts, groupVars, notSocial>>

\* DELETE /users/:id/follow
Unfollow(u, target) ==
  /\ followers' = [followers EXCEPT ![target] = Pull(@, u)]
  /\ following' = [following EXCEPT ![u] = Pull(@, target)]
  /\ likeLog' = NoLike
  /\ UNCHANGED <<posts, groupVars, notSocial>>

PostsStep ==
  \/ \E u \in Users, v \in Visibilities, g \in GroupIds \cup {NoGroup} :
       CreatePost(u, v, g)
  \/ \E u \in Users, id \in PostIds, v \in Visibilities : EditPost(u, id, v)
  \/ \E u \in Users, id \in PostIds : DeletePost(u, id)
  \/ \E u \in Users, id \in PostIds : BookmarkPost(u, id)
  \/ \E u \in Users, t \in Users : Follow(u, t)
  \/ \E u \in Users, t \in Users : Unfollow(u, t)

\* the follow graph next to the posts it opens to followers
FollowStep ==
  \/ \E u \in Users, v \in CreateVisibilities : CreatePost(u, v, NoGroup)
  \/ \E u \in Users, id \in PostIds : DeletePost(u, id)
  \/ \E u \in Users, t \in Users : Follow(u, t)
  \/ \E u \in Users, t \in Users : Unfollow(u, t)

\* one post and every operation on it by id
SoftDeleteStep ==
  \/ \E u \in Users : posts = <<>> /\ CreatePost(u, "public", NoGroup)
  \/ \E u \in Users, id \in PostIds : EditContent(u, id, EditedContent)
  \/ \E u \in Users, id \in PostIds : DeletePost(u, id)
  \/ \E u \in Users, id \in PostIds : LikePost(u, id)
  \/ \E u \in Users, id \in PostIds : CommentPost(u, id)
  \/ \E u \in Users, id \in PostIds, k \in 1..MaxComments :
       DeleteComment(u, id, k)
  \/ \E id \in PostIds : BookmarkPost("u2", id)
  \/ \E id \in PostIds : SharePost("u2", id)

\* users other than Users who like, comment and share
Fans ==
  <<"f1", "f2", "f3", "f4", "f5", "f6", "f7", "f8", "f9", "f10", "f11",
    "f12", "f13", "f14", "f15">>

\* a post of u1 created at the start of the clock that `likes` fans liked,
\* `comments` fans commented and `shares` fans shared
EngagedPost(visibility, group, likes, comments, shares) ==
  [author |-> "u1", visibility |-> visibility, group |-> group,
   isDeleted |-> FALSE, likes |-> SubSeq(Fans, 1, likes),
   bookmarkedBy |-> <<>>, content |-> FirstContent,
   comments |-> [i \in 1..comments |-> [author |-> Fans[i], createdAt |-> 0]],
   shares |-> [i \in 1..shares |-> [user |-> Fans[i], sharedAt |-> 0]],
   createdAt |-> 0]

\* post collections the trending pipeline is run on: posts with much and
\* little engagement, public ones, a private one, one of a group
EngagedPosts ==
  {EngagedPost("public", NoGroup, 10, 5, 2),
   EngagedPost("public", NoGroup, 15, 0, 0),
   EngagedPost("private", NoGroup, 15, 5, 2),
   EngagedPost("group", "g1", 15, 5, 2)}
PostCollections ==
  {<<>>} \cup {<<p>> : p \in EngagedPosts}
    \cup {pq \in EngagedPosts \X EngagedPosts : pq[1] # pq[2]}

LikeStep ==
  \/ \E u \in Users : CreatePost(u, "public", NoGroup)
  \/ \E u \in Users, id \in PostIds : DeletePost(u, id)
  \/ \E u \in Users, id \in PostIds : LikePost(u, id)

(***************************************************************************)
(* Groups (src/middleware/auth.js from line 363: models/Group;             *)
(* src/unnamed/part_001: routes/groups)                                    *)
(***************************************************************************)
Privacies == {"public", "private", "secret"}

NoGroupDoc ==
  [exists |-> FALSE, privacy |-> "public", creator |-> "u1", admins |-> <<>>,
   moderators |-> <<>>, members |-> <<>>, pendingRequests |-> <<>>,
   allowMemberPosts |-> TRUE, isActive |-> TRUE, postCount |-> 0]

\* new Group({privacy, creator, admins: [creator], members: [{creator, admin}]})
NewGroup(u, privacy) ==
  [exists |-> TRUE, privacy |-> privacy, creator |-> u, admins |-> <<u>>,
   moderators |-> <<>>, members |-> <<[user |-> u, role |-> "admin"]>>,
   pendingRequests |-> <<>>, allowMemberPosts |-> TRUE, isActive |-> TRUE,
   postCount |-> 0]

\* groupSchema.methods.isMember for a defined userId
IsMember(g, u) == \E i \in 1..Len(g.members) : g.members[i].user = u

\* isMember(undefined): the callback of members.some evaluates
\* userId.toString() and throws as soon as there is a member to test
IsMemberThrows(g, viewer) == viewer = Anon /\ Len(g.members) > 0

\* groupSchema.methods.isAdmin / isModerator
IsAdmin(g, u) == g.creator = u \/ u \in SetOf(g.admins)
IsModerator(g, u) == IsAdmin(g, u) \/ u \in SetOf(g.moderators)

\* groupSchema.methods.addMember / removeMember (the document they save)
AddMember(g, u) ==
  IF IsMember(g, u) THEN g
  ELSE [g EXCEPT !.members = Append(@, [user |-> u, role |-> "member"])]
RemoveMember(g, u) ==
  [g EXCEPT !.members = SelectSeq(@, LAMBDA m : m.user # u)]

\* Post.find({group: id, isDeleted: false})
GroupPostsQuery(gid) ==
  {id \in PostIds : posts[id].group = gid /\ ~posts[id].isDeleted}

\* GET /groups/:id/posts: status and the ids of the posts returned
GetGroupPosts(viewer, gid) ==
  LET g == groups[gid]
  IN IF ~g.exists THEN [status |-> 404, posts |-> {}]
     ELSE IF g.privacy # "public" /\ IsMemberThrows(g, viewer)
          THEN [status |-> 500, posts |-> {}]
     ELSE IF g.privacy # "public" /\ ~IsMember(g, viewer)
          THEN [status |-> 403, posts |-> {}]
     ELSE [status |-> 200, posts |-> GroupPostsQuery(gid)]

\* a request handler that is not running
IdleJoin == [pc |-> "idle", user |-> "u1", group |-> "g1", doc |-> NoGroupDoc]

GroupsInit ==
  /\ groups = [g \in GroupIds |-> NoGroupDoc]
  /\ userGroups = [u \in Users |-> <<>>]
  /\ joins = [h \in Handlers |-> IdleJoin]

\* POST /groups
CreateGroup(u, gid, privacy) ==
  /\ ~groups[gid].exists
  /\ groups' = [groups EXCEPT ![gid] = NewGroup(u, privacy)]
  /\ userGroups' = [userGroups EXCEPT ![u] = AddToSet(@, gid)]
  /\ UNCHANGED <<postVars, notSocial>>

\* PUT /groups/:id with privacy and settings.allowMemberPosts in the body
UpdateGroup(u, gid, privacy, allowMemberPosts) ==
  /\ groups[gid].exists
  /\ groups' = IF IsAdmin(groups[gid], u)
               THEN [groups EXCEPT ![gid].privacy = privacy,
                                   ![gid].allowMemberPosts = allowMemberPosts]
               ELSE groups
  /\ UNCHANGED <<userGroups, postVars, notSocial>>

\* POST /groups/:id/join: the status of the answer
JoinStatus(u, gid) ==
  IF ~groups[gid].exists \/ ~groups[gid].isActive THEN 404
  ELSE IF IsMember(groups[gid], u) THEN 400
  ELSE 200

\* POST /groups/:id/join
JoinGroup(u, gid) ==
  LET g == groups[gid]
  IN /\ g.exists
     /\ JoinStatus(u, gid) = 200 /\ g.privacy = "private" =>
          Len(g.pendingRequests) < MaxPending
     /\ IF JoinStatus(u, gid) # 200
        THEN UNCHANGED <<groups, userGroups>>
        ELSE IF g.privacy = "private"
        THEN /\ groups' = [groups EXCEPT ![gid].pendingRequests = Append(@, u)]
             /\ UNCHANGED userGroups
        ELSE /\ groups' = [groups EXCEPT ![gid] = AddMember(@, u)]
             /\ userGroups' = [userGroups EXCEPT ![u] = AddToSet(@, gid)]
     /\ UNCHANGED <<postVars, notSocial>>

\* the creator test of the leave route left out
LeaveStatus_CreatorMayLeave(u, gid) ==
  IF ~groups[gid].exists THEN 404 ELSE 200

\* POST /groups/:id/leave: the status of the answer
LeaveStatus(u, gid) ==
  IF ~groups[gid].exists THEN 404
  ELSE IF groups[gid].creator = u THEN 400
  ELSE 200

\* POST /groups/:id/leave
LeaveGroup(u, gid) ==
  /\ groups[gid].exists
  /\ IF LeaveStatus(u, gid) # 200
     THEN UNCHANGED <<groups, userGroups>>
     ELSE /\ groups' = [groups EXCEPT ![gid] = RemoveMember(@, u)]
          /\ userGroups' = [userGroups EXCEPT ![u] = Pull(@, gid)]
  /\ UNCHANGED <<postVars, notSocial>>

\* POST /groups/:id/posts: the status of the answer
GroupPostStatus(u, gid) ==
  LET g == groups[gid]
  IN IF ~g.exists \/ ~g.isActive THEN 404
     ELSE IF ~IsMember(g, u) THEN 403
     ELSE IF ~g.allowMemberPosts /\ ~IsModerator(g, u) THEN 403
     ELSE 201

\* POST /groups/:id/posts
CreateGroupPost(u, gid) ==
  /\ groups[gid].exists
  /\ Len(posts) < MaxPosts
  /\ IF GroupPostStatus(u, gid) = 201
     THEN /\ posts' = Append(posts, NewPost(u, "group", gid))
          /\ groups' = [groups EXCEPT ![gid].postCount = @ + 1]
     ELSE UNCHANGED <<posts, groups>>
  /\ likeLog' = NoLike
  /\ UNCHANGED <<userGroups, followers, following, notSocial>>

\* group.save() after members.push on a loaded document: Mongoose sends
\* the pushed elements as $push, with no test of the version it loaded
SaveMembers(stored, loaded, doc) ==
  [stored EXCEPT !.members =
     @ \o SubSeq(doc.members, Len(loaded.members) + 1, Len(doc.members))]

\* the same for pendingRequests.push
SavePending(stored, loaded, doc) ==
  [stored EXCEPT !.pendingRequests =
     @ \o SubSeq(doc.pendingRequests, Len(loaded.pendingRequests) + 1,
                 Len(doc.pendingRequests))]

\* POST /groups/:id/join, first await: Group.findById resolves
JoinLoad(h, u, gid) ==
  /\ joins[h].pc = "idle"
  /\ groups[gid].exists
  /\ joins' = [joins EXCEPT ![h] =
                 [pc |-> "loaded", user |-> u, group |-> gid,
                  doc |-> groups[gid]]]
  /\ UNCHANGED <<groups, userGroups, postVars, donationVars, authVars,
                 resets>>

\* the same request, second await: the tests ran on the loaded document
\* (isActive, isMember, privacy; addMember tests isMember once more and
\* pushes), save() reaches the store
JoinSave(h) ==
  LET u == joins[h].user
      gid == joins[h].group
      doc == joins[h].doc
  IN /\ joins[h].pc = "loaded"
     /\ IF ~doc.isActive \/ IsMember(doc, u)
        THEN /\ joins' = [joins EXCEPT ![h] = IdleJoin]
             /\ UNCHANGED groups
        ELSE IF doc.privacy = "private"
        THEN /\ Len(groups[gid].pendingRequests) < MaxPending
             /\ groups' = [groups EXCEPT ![gid] =
                    SavePending(@, doc,
                      [doc EXCEPT !.pendingRequests = Append(@, u)])]
             /\ joins' = [joins EXCEPT ![h] = IdleJoin]
        ELSE /\ groups' = [groups EXCEPT ![gid] =
                    SaveMembers(@, doc, AddMember(doc, u))]
             /\ joins' = [joins EXCEPT ![h].pc = "saved"]
     /\ UNCHANGED <<userGroups, postVars, donationVars, authVars, resets>>

\* the same request, third await: User.findByIdAndUpdate with $addToSet
JoinAddGroup(h) ==
  /\ joins[h].pc = "saved"
  /\ userGroups' = [userGroups EXCEPT ![joins[h].user] =
                      AddToSet(@, joins[h].group)]
  /\ joins' = [joins EXCEPT ![h] = IdleJoin]
  /\ UNCHANGED <<groups, postVars, donationVars, authVars, resets>>

JoinConcStep ==
  \/ \E u \in Users, g \in GroupIds, pr \in Privacies : CreateGroup(u, g, pr)
  \/ \E u \in Users, g \in GroupIds : LeaveGroup(u, g)
  \/ \E h \in Handlers, u \in Users, g \in GroupIds : JoinLoad(h, u, g)
  \/ \E h \in Handlers : JoinSave(h)
  \/ \E h \in Handlers : JoinAddGroup(h)

GroupsStep ==
  \/ \E u \in Users, g \in GroupIds, pr \in Privacies : CreateGroup(u, g, pr)
  \/ \E u \in Users, g \in GroupIds, pr \in Privacies, amp \in BOOLEAN :
       UpdateGroup(u, g, pr, amp)
  \/ \E u \in Users, g \in GroupIds : JoinGroup(u, g)
  \/ \E u \in Users, g \in GroupIds : LeaveGroup(u, g)
  \/ \E u \in Users, g \in GroupIds : CreateGroupPost(u, g)
  \/ \E u \in Users, g \in GroupIds : CreatePost(u, "public", g)
  \/ \E u \in Users, id \in PostIds : DeletePost(u, id)

(***************************************************************************)
(* Accounts and tokens (src/middleware/auth.js lines 12-128: middleware,   *)
(* lines 146-361: models/User; src/routes/auth.js: routes/auth)            *)
(***************************************************************************)
Emails == {"ann@nf.org", "bob@nf.org"}

\* passwords registerValidation accepts, one it rejects (shorter than 8
\* characters), and the empty one that loginValidation rejects
Passwords == {"secret123", "letmein99"}
WeakPassword == "short"
EmptyPassword == ""

\* tier: isIn(['free', 'premium'])
Tiers == {"free", "premium"}

\* default: null of a Date field / of an id field
NoDate == -1
NoId == 0

\* expiresIn: '7d' (JWT_EXPIRES_IN unset) and '30d'
AccessDays == 7
RefreshDays == 30

\* how far the clock moves between two requests
TickDays == {10, 25}

\* process.env.JWT_SECRET, and the key of a token the server did not sign
JwtSecret == "JWT_SECRET"
ForgedKey == "forged"

\* the name every user of the model registers with
FirstName == "New member"

\* crypto.createHash('sha256').update(token).digest('hex') of a reset
\* token, and the unset passwordResetToken field
Sha256(token) == [alg |-> "sha256", of |-> token]
NoResetToken == [alg |-> "none", of |-> 0]

\* the pre-save hook stores bcrypt.hash(password, salt), never the password
Hash(pw) == [alg |-> "bcrypt", of |-> pw]

\* userSchema.methods.comparePassword: bcrypt.compare(candidate, this.password)
ComparePassword(candidate, hash) == hash.alg = "bcrypt" /\ hash.of = candidate

UserIds == 1..Len(accounts)

\* new User({email, password, tier}) after the pre-save hook, schema defaults
NewUser(email, pw, tier) ==
  [email |-> email, password |-> Hash(pw), isActive |-> TRUE,
   lastLogin |-> NoDate, tier |-> tier, stripeCustomerId |-> NoId,
   stripeSubscriptionId |-> NoId, subscriptionStatus |-> "none",
   subscriptionEndDate |-> NoDate, name |-> FirstName,
   passwordResetToken |-> NoResetToken, passwordResetExpires |-> NoDate]

\* User.findOne({email}): the _id of the first match, 0 for null
FindByEmail(email) ==
  IF \E i \in UserIds : accounts[i].email = email
  THEN CHOOSE i \in UserIds :
         /\ accounts[i].email = email
         /\ \A j \in UserIds : accounts[j].email = email => i <= j
  ELSE 0

\* mutant: the tier alone
IsPremium_TierOnly(user) == user.tier = "premium"

\* userSchema.virtual('isPremium')
IsPremium(user) ==
  /\ user.tier = "premium"
  /\ user.subscriptionStatus = "active"
  /\ (user.subscriptionEndDate = NoDate \/ user.subscriptionEndDate > now)

\* userSchema.methods.toPublicProfile (the fields the model keeps)
ToPublicProfile(id, user) ==
  [id |-> id, email |-> user.email, tier |-> user.tier,
   isPremium |-> IsPremium(user)]

NoProfile == [id |-> 0]

\* jwt.sign({userId}, JWT_SECRET, {expiresIn}): the payload has no type
GenerateToken(userId) ==
  [userId |-> userId, type |-> "undefined",
   exp |-> now + AccessDays * MinutesPerDay,
   key |-> JwtSecret]

\* jwt.sign({userId, type: 'refresh'}, JWT_SECRET, {expiresIn: '30d'})
GenerateRefreshToken(userId) ==
  [userId |-> userId, type |-> "refresh",
   exp |-> now + RefreshDays * MinutesPerDay,
   key |-> JwtSecret]

\* no token in the request / in the response
NoToken == [userId |-> 0, type |-> "undefined", exp |-> 0, key |-> "none"]

\* jwt.verify(token, JWT_SECRET): the signature first, then the expiry
JwtVerify(token) ==
  IF token.key # JwtSecret THEN "JsonWebTokenError"
  ELSE IF now >= token.exp THEN "TokenExpiredError"
  ELSE "ok"

\* an answer: status, error, the tokens and the profile of its body, and
\* for a middleware how often it called next() and the req.userId it set
NoReply ==
  [op |-> "none", status |-> 0, error |-> "", token |-> NoToken,
   refreshToken |-> NoToken, profile |-> NoProfile, next |-> 0, userId |-> 0]

Failure(op, status, error) ==
  [NoReply EXCEPT !.op = op, !.status = status, !.error = error]

\* POST /auth/login: the status and the error of the answer
LoginResponse(email, pw) ==
  LET id == FindByEmail(email)
  IN IF pw = EmptyPassword THEN [status |-> 400, error |-> "validation"]
     ELSE IF id = 0
          THEN [status |-> 401, error |-> "Invalid email or password"]
     ELSE IF ~accounts[id].isActive
          THEN [status |-> 401,
                error |-> "Account is deactivated. Please contact support."]
     ELSE IF ~ComparePassword(pw, accounts[id].password)
          THEN [status |-> 401, error |-> "Invalid email or password"]
     ELSE [status |-> 200, error |-> ""]

\* the look-up of an existing user left out
RegisterResponse_NoLookup(email, pw, tier) ==
  IF pw \notin Passwords \/ tier \notin Tiers
  THEN [status |-> 400, error |-> "validation"]
  ELSE [status |-> 201, error |-> ""]

\* POST /auth/register: the status and the error of the answer
RegisterResponse(email, pw, tier) ==
  IF pw \notin Passwords \/ tier \notin Tiers
  THEN [status |-> 400, error |-> "validation"]
  ELSE IF FindByEmail(email) # 0
       THEN [status |-> 400,
             error |-> "An account with this email already exists"]
  ELSE [status |-> 201, error |-> ""]

AuthInit ==
  /\ accounts = <<>>
  /\ now = 0
  /\ reply = NoReply
  /\ held = [access |-> NoToken, refresh |-> NoToken]
  /\ resets = <<>>

\* POST /auth/register
Register(email, pw, tier) ==
  LET r == RegisterResponse(email, pw, tier)
      id == Len(accounts) + 1
  IN /\ Len(accounts) < MaxUsers
     /\ IF r.status = 201
        THEN /\ accounts' = Append(accounts,
                  [NewUser(email, pw, tier) EXCEPT !.lastLogin = now])
             /\ reply' = [NoReply EXCEPT
                          !.op = "register", !.status = 201,
                          !.token = GenerateToken(id),
                          !.refreshToken = GenerateRefreshToken(id),
                          !.profile =
                            ToPublicProfile(id, NewUser(email, pw, tier))]
             /\ held' = [access |-> GenerateToken(id),
                         refresh |-> GenerateRefreshToken(id)]
        ELSE /\ reply' = Failure("register", r.status, r.error)
             /\ UNCHANGED <<accounts, held>>
     /\ UNCHANGED <<now, notAuth>>

\* POST /auth/login
Login(email, pw) ==
  LET r == LoginResponse(email, pw)
      id == FindByEmail(email)
  IN /\ IF r.status = 200
        THEN /\ accounts' = [accounts EXCEPT ![id].lastLogin = now]
             /\ reply' = [NoReply EXCEPT
                          !.op = "login", !.status = 200,
                          !.token = GenerateToken(id),
                          !.refreshToken = GenerateRefreshToken(id),
                          !.profile = ToPublicProfile(id, accounts[id])]
             /\ held' = [access |-> GenerateToken(id),
                         refresh |-> GenerateRefreshToken(id)]
        ELSE /\ reply' = Failure("login", r.status, r.error)
             /\ UNCHANGED <<accounts, held>>
     /\ UNCHANGED <<now, notAuth>>

\* the deactivation flag of the User schema, cleared by an operator: no
\* route writes it, authenticate, refresh and login read it
DeactivateAccount(id) ==
  /\ id \in UserIds
  /\ accounts[id].isActive
  /\ accounts' = [accounts EXCEPT ![id].isActive = FALSE]
  /\ UNCHANGED <<now, reply, held, notAuth>>

\* time passes between requests
Tick(days) ==
  /\ now + days * MinutesPerDay <= MaxTime * MinutesPerDay
  /\ now' = now + days * MinutesPerDay
  /\ UNCHANGED <<accounts, reply, held, notAuth>>

\* the refresh route without its test of the type field
RefreshResponse_NoTypeCheck(token) ==
  IF token = NoToken
  THEN [status |-> 400, error |-> "Refresh token is required"]
  ELSE IF JwtVerify(token) # "ok"
       THEN [status |-> 401, error |-> "Invalid or expired refresh token"]
  ELSE IF token.userId \notin UserIds \/ ~accounts[token.userId].isActive
       THEN [status |-> 401, error |-> "User not found or inactive"]
  ELSE [status |-> 200, error |-> ""]

\* POST /auth/refresh: the status and the error of the answer
RefreshResponse(token) ==
  IF token = NoToken
  THEN [status |-> 400, error |-> "Refresh token is required"]
  ELSE IF JwtVerify(token) # "ok"
       THEN [status |-> 401, error |-> "Invalid or expired refresh token"]
  ELSE IF token.type # "refresh"
       THEN [status |-> 401, error |-> "Invalid refresh token"]
  ELSE IF token.userId \notin UserIds \/ ~accounts[token.userId].isActive
       THEN [status |-> 401, error |-> "User not found or inactive"]
  ELSE [status |-> 200, error |-> ""]

\* POST /auth/refresh
Refresh(token) ==
  LET r == RefreshResponse(token)
  IN /\ IF r.status = 200
        THEN /\ reply' = [NoReply EXCEPT !.op = "refresh", !.status = 200,
                                         !.token = GenerateToken(token.userId)]
             /\ held' = [held EXCEPT !.access = GenerateToken(token.userId)]
        ELSE /\ reply' = Failure("refresh", r.status, r.error)
             /\ UNCHANGED held
     /\ UNCHANGED <<accounts, now, notAuth>>

\* authenticate without its test of user.isActive
Authenticate_NoActiveCheck(token) ==
  LET op == "authenticate"
  IN IF token = NoToken
     THEN Failure(op, 401, "Access denied. No token provided.")
     ELSE IF JwtVerify(token) = "JsonWebTokenError"
          THEN Failure(op, 401, "Invalid token.")
     ELSE IF JwtVerify(token) = "TokenExpiredError"
          THEN Failure(op, 401, "Token expired.")
     ELSE IF token.userId \notin UserIds
          THEN Failure(op, 401, "User not found.")
     ELSE [NoReply EXCEPT !.op = op, !.next = 1, !.userId = token.userId]

\* authenticate: what it answers, or that it calls next() with req.userId
Authenticate(token) ==
  LET op == "authenticate"
  IN IF token = NoToken
     THEN Failure(op, 401, "Access denied. No token provided.")
     ELSE IF JwtVerify(token) = "JsonWebTokenError"
          THEN Failure(op, 401, "Invalid token.")
     ELSE IF JwtVerify(token) = "TokenExpiredError"
          THEN Failure(op, 401, "Token expired.")
     ELSE IF token.userId \notin UserIds
          THEN Failure(op, 401, "User not found.")
     ELSE IF ~accounts[token.userId].isActive
          THEN Failure(op, 401, "Account is deactivated.")
     ELSE [NoReply EXCEPT !.op = op, !.next = 1, !.userId = token.userId]

\* optionalAuth: next() on every path, req.userId only for a live token of
\* an active user
OptionalAuth(token) ==
  LET op == "optionalAuth"
      anonymous == [NoReply EXCEPT !.op = op, !.next = 1]
  IN IF token = NoToken THEN anonymous
     ELSE IF JwtVerify(token) # "ok" THEN anonymous
     ELSE IF token.userId \in UserIds /\ accounts[token.userId].isActive
          THEN [anonymous EXCEPT !.userId = token.userId]
     ELSE anonymous

\* a request to a route behind authenticate
StrictRequest(token) ==
  /\ reply' = Authenticate(token)
  /\ UNCHANGED <<accounts, now, held, notAuth>>

\* a request to a route behind optionalAuth
OptionalRequest(token) ==
  /\ reply' = OptionalAuth(token)
  /\ UNCHANGED <<accounts, now, held, notAuth>>

\* the tokens a client can put into a request: none, the ones it holds, and
\* ones signed with a key of its own
Forge(token) == [token EXCEPT !.key = ForgedKey]
Presented ==
  {NoToken, held.access, held.refresh}
    \cup {Forge(t) : t \in {held.access, held.refresh} \ {NoToken}}

AuthStep ==
  \/ \E e \in Emails, pw \in Passwords \cup {WeakPassword}, t \in Tiers :
       Register(e, pw, t)
  \/ \E e \in Emails, pw \in Passwords \cup {EmptyPassword} : Login(e, pw)
  \/ \E id \in UserIds : DeactivateAccount(id)
  \/ \E d \in TickDays : Tick(d)

(***************************************************************************)
(* Subscriptions and the webhook receiver (src/routes/payments.js lines    *)
(* 25-72 and 229-362)                                                      *)
(***************************************************************************)
\* process.env.STRIPE_WEBHOOK_SECRET, and the key of a sender who lacks it
WebhookSecret == "STRIPE_WEBHOOK_SECRET"

\* enum of userSchema.subscriptionStatus
SubscriptionStatuses == {"none", "active", "past_due", "canceled", "trialing"}

\* the statuses of a Stripe subscription object
ProviderStatuses ==
  {"incomplete", "incomplete_expired", "trialing", "active", "past_due",
   "canceled", "unpaid", "paused"}

\* Stripe's subscription ids
SubscriptionIds == {1, 2}

\* Dates of the model are minutes, Stripe sends epoch seconds:
\* new Date(seconds * 1000) is the instant `seconds` after the epoch
SecondsPerDay == 86400
SecondsPerMinute == 60
DateFromSeconds(seconds) == seconds \div SecondsPerMinute

\* current_period_end values Stripe sends (epoch seconds)
PeriodEnds == {20 * SecondsPerDay}

NoEvent ==
  [type |-> "none", customer |-> NoId, userId |-> NoId, subscription |-> NoId,
   status |-> "none", periodEnd |-> 0, intent |-> 0]

\* stripe.webhooks.constructEvent(body, sig, secret): throws unless the
\* stripe-signature header was computed with the secret
ConstructEvent_Unverified(sigKey) == TRUE
ConstructEvent(sigKey) == sigKey = WebhookSecret

\* User.findById / User.findOne({stripeCustomerId}): the _id, 0 for null
FindById(id) == IF id \in UserIds THEN id ELSE 0
FindByCustomer(customer) ==
  IF \E i \in UserIds : accounts[i].stripeCustomerId = customer
  THEN CHOOSE i \in UserIds :
         /\ accounts[i].stripeCustomerId = customer
         /\ \A j \in UserIds : accounts[j].stripeCustomerId = customer => i <= j
  ELSE 0

\* user.save(): schema validation rejects the document (the handlers catch
\* the error and log it), otherwise the document is stored
SaveUser(id, user) ==
  IF user.subscriptionStatus \in SubscriptionStatuses /\ user.tier \in Tiers
  THEN [accounts EXCEPT ![id] = user]
  ELSE accounts

\* handleCheckoutComplete
HandleCheckoutComplete(session) ==
  LET id == FindById(session.userId)
  IN IF id = 0 THEN accounts
     ELSE SaveUser(id, [accounts[id] EXCEPT
                          !.stripeSubscriptionId = session.subscription,
                          !.tier = "premium",
                          !.subscriptionStatus = "active"])

\* handleSubscriptionUpdate
HandleSubscriptionUpdate(subscription) ==
  LET id == FindByCustomer(subscription.customer)
      user == [accounts[id] EXCEPT
                 !.subscriptionStatus = subscription.status,
                 !.stripeSubscriptionId = subscription.subscription]
  IN IF id = 0 THEN accounts
     ELSE IF subscription.status = "active"
          THEN SaveUser(id, [user EXCEPT
                 !.tier = "premium",
                 !.subscriptionEndDate =
                    DateFromSeconds(subscription.periodEnd)])
     ELSE SaveUser(id, user)

\* handleSubscriptionCanceled that keeps the tier
HandleSubscriptionCanceled_KeepsTier(subscription) ==
  LET id == FindByCustomer(subscription.customer)
  IN IF id = 0 THEN accounts
     ELSE SaveUser(id, [accounts[id] EXCEPT
                          !.subscriptionStatus = "canceled",
                          !.stripeSubscriptionId = NoId])

\* handleSubscriptionCanceled
HandleSubscriptionCanceled(subscription) ==
  LET id == FindByCustomer(subscription.customer)
  IN IF id = 0 THEN accounts
     ELSE SaveUser(id, [accounts[id] EXCEPT
                          !.tier = "free",
                          !.subscriptionStatus = "canceled",
                          !.stripeSubscriptionId = NoId])

\* handlePaymentFailed
HandlePaymentFailed(invoice) ==
  LET id == FindByCustomer(invoice.customer)
  IN IF id = 0 THEN accounts
     ELSE SaveUser(id, [accounts[id] EXCEPT !.subscriptionStatus = "past_due"])

UpdateTypes == {"customer.subscription.created", "customer.subscription.updated"}

\* the switch of the webhook route over the events that write users
HandleUserEvent(event) ==
  IF event.type = "checkout.session.completed"
  THEN HandleCheckoutComplete(event)
  ELSE IF event.type \in UpdateTypes THEN HandleSubscriptionUpdate(event)
  ELSE IF event.type = "customer.subscription.deleted"
       THEN HandleSubscriptionCanceled(event)
  ELSE IF event.type = "invoice.payment_failed" THEN HandlePaymentFailed(event)
  ELSE accounts

\* POST /payments/create-checkout-session by user id: the first call
\* creates the Stripe customer (customer i belongs to user i) and stores it
CreateCheckoutSession(id) ==
  /\ id \in UserIds
  /\ accounts[id].isActive
  /\ accounts' = IF accounts[id].stripeCustomerId = NoId
                 THEN [accounts EXCEPT ![id].stripeCustomerId = id]
                 ELSE accounts
  /\ reply' = [NoReply EXCEPT !.op = "create-checkout-session", !.status = 200]
  /\ UNCHANGED <<now, held, notAuth>>

\* POST /payments/webhook: signature check, then the switch on event.type
Webhook(event, sigKey) ==
  LET pi == event.intent
      donation == event.type = "payment_intent.succeeded"
      cid == intents[pi].campaign
  IN /\ donation => pi \in 1..Len(intents)
     /\ IF ~ConstructEvent(sigKey)
        THEN /\ reply' = Failure("webhook", 400, "Webhook Error")
             /\ UNCHANGED <<accounts, campaigns, delivered>>
        ELSE /\ reply' = [NoReply EXCEPT !.op = "webhook", !.status = 200]
             /\ accounts' = HandleUserEvent(event)
             /\ IF donation
                THEN /\ delivered[pi] < MaxDeliveries
                     /\ Len(campaigns[cid].donations) < MaxDonations
                     /\ delivered' = [delivered EXCEPT ![pi] = @ + 1]
                     /\ campaigns' =
                          IF ~campaigns[cid].exists THEN campaigns
                          ELSE [campaigns EXCEPT ![cid] =
                                  HandleDonationSuccess(@, @, intents[pi], pi)]
                ELSE UNCHANGED <<campaigns, delivered>>
     /\ UNCHANGED <<intents, confirmed, wh, now, held, postVars, groupVars,
                  joins, resets>>

\* events by type over given value sets
CheckoutEvents(users, subs) ==
  {[NoEvent EXCEPT !.type = "checkout.session.completed", !.userId = u,
                   !.subscription = sub] : u \in users, sub \in subs}
UpdateEvents(customers, subs, statuses, ends) ==
  {[NoEvent EXCEPT !.type = t, !.customer = c, !.subscription = sub,
                   !.status = st, !.periodEnd = e] :
     t \in UpdateTypes, c \in customers, sub \in subs, st \in statuses,
     e \in ends}
DeletedEvents(customers, subs) ==
  {[NoEvent EXCEPT !.type = "customer.subscription.deleted", !.customer = c,
                   !.subscription = sub] : c \in customers, sub \in subs}
FailedEvents(customers) ==
  {[NoEvent EXCEPT !.type = "invoice.payment_failed", !.customer = c] :
     c \in customers}
DonationEvents ==
  {[NoEvent EXCEPT !.type = "payment_intent.succeeded", !.intent = pi] :
     pi \in 1..Len(intents)}

\* what Stripe sends: events about its own objects, donations once paid
SubscriptionEvents ==
  CheckoutEvents(1..MaxUsers, SubscriptionIds)
    \cup UpdateEvents(1..MaxUsers, SubscriptionIds, ProviderStatuses, PeriodEnds)
    \cup DeletedEvents(1..MaxUsers, SubscriptionIds)
    \cup FailedEvents(1..MaxUsers)

\* registration, checkout and the subscription events, all verified
SubscriptionStep ==
  \/ \E e \in Emails : Register(e, "secret123", "free")
  \/ \E id \in UserIds : CreateCheckoutSession(id)
  \/ \E ev \in SubscriptionEvents : Webhook(ev, WebhookSecret)
  \/ Tick(25)

\* the webhook receiver with signed and unsigned requests, one user, one
\* campaign, one donor, a narrow range of event fields
WebhookEvents ==
  CheckoutEvents({1}, {1})
    \cup UpdateEvents({1}, {1}, {"active", "past_due"}, PeriodEnds)
    \cup DeletedEvents({1}, {1})
    \cup FailedEvents({1})
    \cup DonationEvents

WebhookStep ==
  \/ Register("ann@nf.org", "secret123", "free")
  \/ CreateCheckoutSession(1)
  \/ CreateCampaign("u1", "c1", MinGoal, LongEndDate)
  \/ Donate("u1", "c1", 60)
  \/ \E pi \in 1..Len(intents) : PaymentSucceeds(pi)
  \/ \E ev \in WebhookEvents, key \in {WebhookSecret, ForgedKey} :
       /\ ev.type = "payment_intent.succeeded" /\ key = WebhookSecret
            => intents[ev.intent].status = "succeeded"
       /\ Webhook(ev, key)

(***************************************************************************)
(* Campaign virtuals and the campaign edit route                           *)
(* (src/models/Campaign.js, src/routes/payments.js from line 527)          *)
(***************************************************************************)
\* time passes, up to the instant `until`
Pass(minutes, until) ==
  /\ now + minutes <= until
  /\ now' = now + minutes
  /\ UNCHANGED <<accounts, reply, held, notAuth>>

\* Math.ceil(a / b) for b > 0, and Math.max
CeilDiv(a, b) == -((-a) \div b)
Max(a, b) == IF a >= b THEN a ELSE b

\* mutant: daysLeft without Math.max(0, days)
DaysLeft_NoClamp(c) == CeilDiv(c.endDate - now, MinutesPerDay)

\* campaignSchema.virtual('daysLeft')
DaysLeft(c) == Max(0, CeilDiv(c.endDate - now, MinutesPerDay))

\* campaignSchema.virtual('isActive')
IsActive(c) == c.status = "active" /\ DaysLeft(c) > 0 /\ c.raised < c.goal

\* endDate values of POST /campaigns requests (ISO 8601 dates): the start
\* of the clock, five and a quarter days later, after the end of the clock
EndDateInputs == {0, 5 * MinutesPerDay + 360, LongEndDate}

\* the step of the clock next to campaigns: three and a half days
HalfWeek == (7 * MinutesPerDay) \div 2

\* PUT /campaigns/:id: the fields the handler copies from the body
AllowedUpdates ==
  {"title", "description", "shortDescription", "coverImage", "images",
   "video", "tags", "location", "beneficiary"}

\* request bodies of PUT /campaigns/:id: allowed fields only, and allowed
\* fields next to every other field of the document
UpdateBodies ==
  {[title |-> "Clean water, phase two", tags |-> <<"water">>],
   [title |-> "Clean water, phase two", goal |-> 1, raised |-> 1000,
    donations |-> <<>>, donorCount |-> 9, status |-> "completed",
    endDate |-> LongEndDate, organizer |-> "u2"]}

\* mutant: every field of the body copied into the document
ApplyUpdates_AnyField(c, body) ==
  [f \in DOMAIN c |-> IF f \in DOMAIN body THEN body[f] ELSE c[f]]

\* allowedUpdates.forEach(field => if (req.body[field] !== undefined)
\* campaign[field] = req.body[field])
ApplyUpdates(c, body) ==
  [f \in DOMAIN c |->
     IF f \in AllowedUpdates /\ f \in DOMAIN body THEN body[f] ELSE c[f]]

\* PUT /campaigns/:id: the status of the answer
UpdateCampaignStatus(u, cid) ==
  IF ~campaigns[cid].exists THEN 404
  ELSE IF campaigns[cid].organizer # u THEN 403
  ELSE 200

\* PUT /campaigns/:id
UpdateCampaign(u, cid, body) ==
  /\ campaigns[cid].exists
  /\ campaigns' = IF UpdateCampaignStatus(u, cid) = 200
                  THEN [campaigns EXCEPT ![cid] = ApplyUpdates(@, body)]
                  ELSE campaigns
  /\ UNCHANGED <<intents, delivered, confirmed, wh, notDonation>>

CampaignStep ==
  \/ \E u \in Users, cid \in CampaignIds, goal \in GoalInputs,
        endDate \in EndDateInputs : CreateCampaign(u, cid, goal, endDate)
  \/ \E u \in Users, cid \in CampaignIds, body \in UpdateBodies :
       UpdateCampaign(u, cid, body)
  \/ \E cid \in CampaignIds : Donate("u2", cid, 60)
  \/ \E pi \in 1..Len(intents) : PaymentSucceeds(pi)
  \/ \E pi \in 1..Len(intents) : ConfirmDonation(pi)
  \/ Pass(HalfWeek, MaxTime * MinutesPerDay)

(***************************************************************************)
(* Premium access: requirePremium (src/middleware/auth.js 91-106) and the  *)
(* profile update (src/unnamed/part_000 56-105)                            *)
(***************************************************************************)
\* requirePremium after a middleware that answered req: 401 without
\* req.user, 403 unless req.user.isPremium, else next()
RequirePremium(req) ==
  LET op == "requirePremium"
  IN IF req.userId = 0 THEN Failure(op, 401, "Authentication required.")
     ELSE IF ~IsPremium(accounts[req.userId])
          THEN Failure(op, 403, "Premium subscription required.")
     ELSE [NoReply EXCEPT !.op = op, !.next = 1, !.userId = req.userId]

\* a request to a route behind authenticate, requirePremium
PremiumRequest(token) ==
  /\ reply' = IF Authenticate(token).next = 0 THEN Authenticate(token)
               ELSE RequirePremium(Authenticate(token))
  /\ UNCHANGED <<accounts, now, held, notAuth>>

\* const allowedUpdates of PUT /users/profile
AllowedProfileUpdates ==
  {"name", "bio", "location", "website", "avatar", "role"}

\* a name the validation accepts, and one shorter than two characters
NewName == "Renamed"
ShortName == "R"

\* request bodies of PUT /users/profile: a name, the billing fields next to
\* a name, and a name the validation rejects
ProfileBodies ==
  {[name |-> NewName],
   [name |-> NewName, tier |-> "premium", subscriptionStatus |-> "active",
    subscriptionEndDate |-> NoDate, stripeSubscriptionId |-> 1],
   [name |-> ShortName, tier |-> "premium", subscriptionStatus |-> "active"]}

\* updates[field] = req.body[field] for the allowed fields, then $set
ApplyProfileUpdates(user, body) ==
  [f \in DOMAIN user |->
     IF f \in AllowedProfileUpdates /\ f \in DOMAIN body
     THEN body[f] ELSE user[f]]

\* PUT /users/profile: authenticate, the validation, findByIdAndUpdate
UpdateProfile(token, body) ==
  LET auth == Authenticate(token)
      id == auth.userId
      user == ApplyProfileUpdates(accounts[id], body)
  IN /\ IF auth.next = 0
        THEN reply' = auth /\ UNCHANGED accounts
        ELSE IF "name" \in DOMAIN body /\ body.name = ShortName
             THEN /\ reply' = Failure("profile", 400, "validation")
                  /\ UNCHANGED accounts
        ELSE /\ accounts' = [accounts EXCEPT ![id] = user]
             /\ reply' = [NoReply EXCEPT !.op = "profile", !.status = 200,
                                         !.profile = ToPublicProfile(id, user)]
     /\ UNCHANGED <<now, held, notAuth>>

\* the billing events about the users' subscriptions
PremiumEvents ==
  CheckoutEvents(1..MaxUsers, {1})
    \cup UpdateEvents(1..MaxUsers, {1}, {"active", "past_due"}, PeriodEnds)
    \cup DeletedEvents(1..MaxUsers, {1})

\* the Authorization header of a client: none, or the access token it holds
Bearer == {NoToken, held.access}

\* users of either tier, their profile updates and premium requests, and
\* billing events with and without a valid signature
PremiumStep ==
  \/ \E e \in Emails, t \in Tiers : Register(e, "secret123", t)
  \/ \E token \in Bearer, body \in ProfileBodies :
       UpdateProfile(token, body)
  \/ \E token \in Bearer : PremiumRequest(token)
  \/ \E id \in UserIds : CreateCheckoutSession(id)
  \/ \E ev \in PremiumEvents, key \in {WebhookSecret, ForgedKey} :
       Webhook(ev, key)
  \/ Tick(25)

(***************************************************************************)
(* Password reset (src/routes/auth.js 216-314,                             *)
(* src/middleware/auth.js 324-336)                                         *)
(***************************************************************************)
\* Date.now() + 10 * 60 * 1000
ResetMinutes == 10

\* the clock next to reset tokens: steps of five minutes up to twenty
HalfReset == ResetMinutes \div 2
ResetHorizon == 2 * ResetMinutes

\* userSchema.methods.createPasswordResetToken with resetToken = token:
\* the document with the hash of the token and the expiry
CreatePasswordResetToken(user, token) ==
  [user EXCEPT !.passwordResetToken = Sha256(token),
               !.passwordResetExpires = now + ResetMinutes]

\* mutant: the look-up by the hash alone
FindByResetToken_NoExpiry(token) ==
  IF \E i \in UserIds : accounts[i].passwordResetToken = Sha256(token)
  THEN CHOOSE i \in UserIds : accounts[i].passwordResetToken = Sha256(token)
  ELSE 0

\* User.findOne({passwordResetToken: hashedToken,
\* passwordResetExpires: {$gt: Date.now()}}): the _id, 0 for null
FindByResetToken(token) ==
  IF \E i \in UserIds : /\ accounts[i].passwordResetToken = Sha256(token)
                        /\ accounts[i].passwordResetExpires > now
  THEN CHOOSE i \in UserIds :
         /\ accounts[i].passwordResetToken = Sha256(token)
         /\ accounts[i].passwordResetExpires > now
  ELSE 0

\* POST /auth/forgot-password: the token is random, the model numbers the
\* tokens; the answer is the same whether or not the user exists
ForgotPassword(email) ==
  LET id == FindByEmail(email)
      token == Len(resets) + 1
  IN /\ Len(resets) < MaxResets
     /\ IF id = 0
        THEN UNCHANGED <<accounts, resets>>
        ELSE /\ accounts' = [accounts EXCEPT ![id] =
                               CreatePasswordResetToken(@, token)]
             /\ resets' = Append(resets,
                   [user |-> id, issuedAt |-> now, accepted |-> 0])
     /\ reply' = [NoReply EXCEPT !.op = "forgot-password", !.status = 200]
     /\ UNCHANGED <<now, held, donationVars, postVars, groupVars, joins>>

\* POST /auth/reset-password: the status and the error of the answer
ResetResponse(token, pw) ==
  IF pw \notin Passwords THEN [status |-> 400, error |-> "validation"]
  ELSE IF FindByResetToken(token) = 0
       THEN [status |-> 400, error |-> "Invalid or expired reset token"]
  ELSE [status |-> 200, error |-> ""]

\* POST /auth/reset-password; token 0 is a token that was never issued
ResetPassword(token, pw) ==
  LET r == ResetResponse(token, pw)
      id == FindByResetToken(token)
  IN /\ IF r.status = 200
        THEN /\ accounts' = [accounts EXCEPT
                              ![id].password = Hash(pw),
                              ![id].passwordResetToken = NoResetToken,
                              ![id].passwordResetExpires = NoDate]
             /\ resets' = [resets EXCEPT ![token].accepted = @ + 1]
             /\ reply' = [NoReply EXCEPT !.op = "reset-password",
                                         !.status = 200,
                                         !.token = GenerateToken(id)]
             /\ held' = [held EXCEPT !.access = GenerateToken(id)]
        ELSE /\ reply' = Failure("reset-password", r.status, r.error)
             /\ UNCHANGED <<accounts, resets, held>>
     /\ UNCHANGED <<now, donationVars, postVars, groupVars, joins>>

\* passwords of reset requests: one the validation accepts, one it rejects
ResetPasswords == {"letmein99", WeakPassword}

ResetStep ==
  \/ \E e \in Emails : Register(e, "secret123", "free")
  \/ \E e \in Emails : ForgotPassword(e)
  \/ \E token \in 0..Len(resets), pw \in ResetPasswords :
       ResetPassword(token, pw)
  \/ Pass(HalfReset, ResetHorizon)

(***************************************************************************)
(* The trending pipeline over seeded post collections                      *)
(***************************************************************************)
\* a day and a half of the clock, in steps of half a day
HalfDay == MinutesPerDay \div 2
TrendingHorizon == 3 * HalfDay

TrendingInit ==
  /\ DonationInit /\ GroupsInit /\ AuthInit
  /\ posts \in PostCollections
  /\ followers = [u \in Users |-> <<>>]
  /\ following = [u \in Users |-> <<>>]
  /\ likeLog = NoLike

TrendingStep ==
  \/ posts = <<>> /\ CreatePost("u2", "public", NoGroup)
  \/ \E id \in PostIds : DeletePost("u1", id)
  \/ \E id \in PostIds : LikePost("u2", id)
  \/ \E id \in PostIds : SharePost("u2", id)
  \/ Pass(HalfDay, TrendingHorizon)

(***************************************************************************)
(* Specifications                                                          *)
(***************************************************************************)
Init == DonationInit /\ PostsInit /\ GroupsInit /\ AuthInit

\* tokens and the middleware; one password, the free tier
TokenStep ==
  \/ \E e \in Emails : Register(e, "secret123", "free")
  \/ \E e \in Emails : Login(e, "secret123")
  \/ \E t \in Presented : Refresh(t)
  \/ \E t \in Presented : StrictRequest(t)
  \/ \E t \in Presented : OptionalRequest(t)
  \/ \E id \in UserIds : DeactivateAccount(id)
  \/ \E d \in TickDays : Tick(d)

SpecToken == Init /\ [][TokenStep]_vars

\* subscriptions
SpecSubscription == Init /\ [][SubscriptionStep]_vars

\* the webhook receiver
SpecWebhook == Init /\ [][WebhookStep]_vars

\* donations, every handler atomic
SpecDonation == Init /\ [][DonationStep]_vars

\* donations, two webhook deliveries handled concurrently
SpecDonationConc == Init /\ [][DonationConcStep]_vars

\* posts and the follow graph
SpecPosts == Init /\ [][PostsStep]_vars

\* likes
SpecLike == Init /\ [][LikeStep]_vars

\* groups and their posts
SpecGroups == Init /\ [][GroupsStep]_vars

\* premium access of users of either tier
SpecPremium == Init /\ [][PremiumStep]_vars

\* forgot-password and reset-password requests while minutes pass
SpecReset == Init /\ [][ResetStep]_vars

\* the trending pipeline over seeded post collections while posts are
\* liked, shared, deleted and grow old
SpecTrending == TrendingInit /\ [][TrendingStep]_vars

\* the operations on one post by id, requests one at a time
SpecSoftDelete == Init /\ [][SoftDeleteStep]_vars

\* campaign creation, edits and donations while time passes
SpecCampaign == Init /\ [][CampaignStep]_vars

\* join requests interleaved at their awaits
SpecJoinConc == Init /\ [][JoinConcStep]_vars

\* follow and unfollow requests, one at a time
SpecFollow == Init /\ [][FollowStep]_vars

\* accounts
SpecAuth == Init /\ [][AuthStep]_vars

(***************************************************************************)
(* Claims about posts, groups and accounts                                 *)
(***************************************************************************)
\* what the visibility of a post allows a viewer outside the group channel
Visible(viewer, id) ==
  LET p == posts[id]
  IN /\ p.group = NoGroup
     /\ p.visibility # "group"
     /\ p.visibility = "private" => viewer = p.author
     /\ p.visibility = "followers" =>
          viewer = p.author \/ viewer \in SetOf(followers[p.author])

\* the ids a viewer is handed by the read paths outside the group channel
ReadPaths(viewer) ==
  UNION {GetUserPosts(viewer, a) : a \in Users}
    \cup GetFeed(viewer) \cup GetTrending(viewer) \cup GetBookmarks(viewer)
    \cup UNION {GetPost(viewer, id) : id \in PostIds}

\* C7: visibility gates every read path: the user-posts listing, the feed,
\* trending, bookmarks and GET /posts/:id hand a private post only to its
\* author, a followers post only to the author and the author's followers,
\* and never a group post, whoever the viewer is, authenticated or not.
C7_VisibilityGatesEveryReadPath ==
  \A viewer \in Viewers : \A id \in ReadPaths(viewer) : Visible(viewer, id)

\* C8: GET /groups/:id/posts on a private group answers 403 without posts to
\* every requester who is not a member, unauthenticated ones included, and
\* answers a member with the group's non-deleted posts.
C8_PrivateGroupPostsGate ==
  \A g \in GroupIds :
    groups[g].exists /\ groups[g].privacy = "private" =>
      \A viewer \in Viewers :
        LET r == GetGroupPosts(viewer, g)
        IN IF viewer # Anon /\ IsMember(groups[g], viewer)
           THEN r.status = 200 /\ r.posts = GroupPostsQuery(g)
           ELSE r.status = 403 /\ r.posts = {}

\* C9: like is a toggle on set membership: after two successive like calls
\* by one user on one non-deleted post the likes set and the like count are
\* what they were before the first call, and the two responses report
\* liked = true then false, or false then true if the user had liked the post.
C9_LikeIsAToggle ==
  Len(likeLog) = 2 =>
    LET first == likeLog[1]
        second == likeLog[2]
        post == posts[first.post]
    IN /\ SetOf(post.likes) = SetOf(first.before)
       /\ Len(post.likes) = Len(first.before)
       /\ second.likeCount = Len(first.before)
       /\ first.liked = ~(first.user \in SetOf(first.before))
       /\ second.liked = ~first.liked

C9_Witness ==
  /\ Len(likeLog) = 2
  /\ likeLog[1].before # <<>>
  /\ likeLog[1].liked
  /\ ~likeLog[2].liked

\* C10: login answers a wrong password on an existing account and an email
\* without an account with the same status and the same error, 'Invalid
\* email or password', so the answer does not tell whether the email is
\* registered.
C10_LoginDoesNotRevealRegistration ==
  \A e1 \in Emails, e2 \in Emails, pw \in Passwords :
    /\ FindByEmail(e1) # 0
    /\ ~ComparePassword(pw, accounts[FindByEmail(e1)].password)
    /\ FindByEmail(e2) = 0
    => /\ LoginResponse(e1, pw) = LoginResponse(e2, pw)
       /\ LoginResponse(e1, pw).error = "Invalid email or password"

(***************************************************************************)
(* Claims about registration, tokens and the middleware                    *)
(***************************************************************************)
NoSharedEmail ==
  \A i \in UserIds, j \in UserIds : accounts[i].email = accounts[j].email => i = j

\* C11: a registration with an email that already belongs to a user is
\* answered with an error and creates no user, so no two users ever share an
\* email; a registration with a valid new payload is answered with an access
\* token and a refresh token of the new user and a profile without a
\* password field.
C11_RegisterRejectsDuplicateEmail ==
  [][/\ NoSharedEmail'
     /\ \A e \in Emails, pw \in Passwords, t \in Tiers :
          FindByEmail(e) # 0 /\ Register(e, pw, t) =>
            /\ accounts' = accounts
            /\ reply'.status >= 400
            /\ reply'.token = NoToken /\ reply'.refreshToken = NoToken
     /\ \A e \in Emails, pw \in Passwords, t \in Tiers :
          FindByEmail(e) = 0 /\ Register(e, pw, t) =>
            /\ Len(accounts') = Len(accounts) + 1
            /\ accounts'[Len(accounts')].email = e
            /\ reply'.status = 201
            /\ reply'.token = GenerateToken(Len(accounts'))
            /\ reply'.refreshToken = GenerateRefreshToken(Len(accounts'))
            /\ reply'.token.type # "refresh"
            /\ reply'.profile.email = e
            /\ "password" \notin DOMAIN reply'.profile]_vars

C11_Witness ==
  /\ Len(accounts) >= 1
  /\ reply.op = "register"
  /\ reply.status = 400
  /\ reply.error = "An account with this email already exists"

\* C12: POST /auth/refresh never accepts a token issued as an access token:
\* for every presented token it answers 401 and issues no token unless the
\* token is signed with the secret, not expired, carries type 'refresh' and
\* names an existing, active user, in which case it issues an access token
\* for that user; a request without a token gets no token either.
C12_RefreshNeedsRefreshToken ==
  [][\A t \in Presented :
       Refresh(t) =>
         LET acceptable == /\ t.key = JwtSecret
                           /\ now < t.exp
                           /\ t.type = "refresh"
                           /\ t.userId \in UserIds
                           /\ accounts[t.userId].isActive
         IN IF t = NoToken
            THEN reply'.status # 200 /\ reply'.token = NoToken /\ held' = held
            ELSE IF acceptable
            THEN /\ reply'.status = 200
                 /\ reply'.token = GenerateToken(t.userId)
            ELSE /\ reply'.status = 401
                 /\ reply'.token = NoToken
                 /\ held' = held]_vars

C12_Witness ==
  /\ reply.op = "refresh"
  /\ reply.status = 401
  /\ reply.error = "Invalid refresh token"
  /\ held.access # NoToken
  /\ JwtVerify(held.access) = "ok"

\* why a presented token does not authenticate, in the order the middleware
\* finds out
TokenCase(t) ==
  IF t = NoToken THEN "no token"
  ELSE IF t.key # JwtSecret THEN "invalid token"
  ELSE IF now >= t.exp THEN "expired token"
  ELSE IF t.userId \notin UserIds THEN "no user"
  ELSE IF ~accounts[t.userId].isActive THEN "inactive account"
  ELSE "authenticated"

\* C13: when the token is missing, invalid or expired or its user does not
\* exist or is deactivated, authenticate answers 401, does not call next and
\* sets no req.userId, with pairwise distinct messages for no token, invalid
\* token, expired token and inactive account; optionalAuth calls next exactly
\* once in each of these cases, answers nothing and sets no req.userId.
C13_StrictFailsOptionalProceeds ==
  [][/\ \A t \in Presented :
          TokenCase(t) # "authenticated" =>
            /\ StrictRequest(t) =>
                 /\ reply'.status = 401
                 /\ reply'.next = 0
                 /\ reply'.userId = 0
            /\ OptionalRequest(t) =>
                 /\ reply'.status = 0
                 /\ reply'.next = 1
                 /\ reply'.userId = 0
     /\ \A t1 \in Presented, t2 \in Presented :
          /\ TokenCase(t1) # TokenCase(t2)
          /\ {TokenCase(t1), TokenCase(t2)} \subseteq
               {"no token", "invalid token", "expired token", "inactive account"}
          => Authenticate(t1).error # Authenticate(t2).error]_vars

C13_Witness ==
  /\ reply.op = "authenticate"
  /\ reply.status = 401
  /\ reply.error = "Account is deactivated."
  /\ reply.next = 0

(***************************************************************************)
(* Claims about the webhook receiver and subscriptions                     *)
(***************************************************************************)
\* the fields of a user and of a campaign that webhook handlers write
SubscriptionOf(user) ==
  <<user.tier, user.subscriptionStatus, user.stripeSubscriptionId,
    user.subscriptionEndDate>>
FundingOf(c) == <<c.donations, c.raised, c.donorCount, c.status>>

\* C14: a webhook request whose signature does not verify against the
\* secret is answered 400 and runs no handler: no user's tier, subscription
\* status, subscription id or end date and no campaign's donations, raised,
\* donorCount or status change.
C14_UnverifiedWebhookChangesNothing ==
  [][\A ev \in WebhookEvents :
       Webhook(ev, ForgedKey) =>
         /\ reply'.status = 400
         /\ Len(accounts') = Len(accounts)
         /\ \A id \in UserIds :
              SubscriptionOf(accounts'[id]) = SubscriptionOf(accounts[id])
         /\ \A cid \in CampaignIds :
              FundingOf(campaigns'[cid]) = FundingOf(campaigns[cid])]_vars

C14_Witness ==
  /\ reply.op = "webhook"
  /\ reply.status = 400
  /\ \E id \in UserIds : accounts[id].stripeCustomerId # NoId
  /\ \E pi \in 1..Len(intents) :
       /\ campaigns[intents[pi].campaign].exists
       /\ campaigns[intents[pi].campaign].donations = <<>>

\* C15: after a verified customer.subscription.created or .updated event
\* for a known customer the user's subscriptionStatus is the status the
\* provider sent, whichever status that is; if it is active the tier is
\* premium and subscriptionEndDate is the provider's current period end.
C15_StatusMirrorsProvider ==
  [][\A ev \in UpdateEvents(1..MaxUsers, SubscriptionIds, ProviderStatuses,
                            PeriodEnds) :
       LET id == FindByCustomer(ev.customer)
       IN id # 0 /\ Webhook(ev, WebhookSecret) =>
            /\ accounts'[id].subscriptionStatus = ev.status
            /\ ev.status = "active" =>
                 /\ accounts'[id].tier = "premium"
                 /\ accounts'[id].subscriptionEndDate * SecondsPerMinute
                      = ev.periodEnd]_vars

\* tier free, no subscription linked, not premium
Cancelled(user) ==
  /\ user.tier = "free"
  /\ user.stripeSubscriptionId = NoId
  /\ ~IsPremium(user)

\* C16: a verified customer.subscription.deleted event for a known customer
\* leaves the user with tier free, no stripeSubscriptionId and isPremium
\* false, and no step other than a later checkout-completed or subscription
\* created/updated event ends that; a verified checkout.session.completed
\* event sets the tier of its user to premium and links the session's
\* subscription id.
C16_CancelledUntilNextSubscription ==
  [][/\ \A ev \in DeletedEvents(1..MaxUsers, SubscriptionIds) :
          LET id == FindByCustomer(ev.customer)
          IN id # 0 /\ Webhook(ev, WebhookSecret) => Cancelled(accounts[id])'
     /\ \A id \in UserIds :
          Cancelled(accounts[id]) /\ ~Cancelled(accounts[id])' =>
            \E ev \in CheckoutEvents(1..MaxUsers, SubscriptionIds)
                     \cup UpdateEvents(1..MaxUsers, SubscriptionIds,
                                       ProviderStatuses, PeriodEnds) :
              Webhook(ev, WebhookSecret)
     /\ \A ev \in CheckoutEvents(1..MaxUsers, SubscriptionIds) :
          LET id == FindById(ev.userId)
          IN id # 0 /\ Webhook(ev, WebhookSecret) =>
               /\ accounts'[id].tier = "premium"
               /\ accounts'[id].stripeSubscriptionId = ev.subscription]_vars

C16_Witness ==
  \E id \in UserIds :
    /\ accounts[id].subscriptionStatus = "canceled"
    /\ accounts[id].subscriptionEndDate # NoDate
    /\ Cancelled(accounts[id])


\* no user is among their own followers or in their own following list
NoSelfFollow ==
  \A u \in Users :
    u \notin SetOf(followers[u]) /\ u \notin SetOf(following[u])

\* C17: no user follows themself: before and after every step no user's id
\* is in their own followers or following list; a follow request naming the
\* caller is answered 400 and changes neither list, and so is a follow
\* request for a user the caller already follows.
C17_NoSelfFollowNoDuplicateFollow ==
  [][/\ NoSelfFollow /\ NoSelfFollow'
     /\ \A u \in Users, t \in Users :
          Follow(u, t) /\ (t = u \/ u \in SetOf(followers[t])) =>
            /\ FollowStatus(u, t) = 400
            /\ UNCHANGED <<followers, following>>]_vars

\* a user follows another one: a second follow request is a duplicate
C17_Witness ==
  \E u \in Users, t \in Users :
    /\ u # t
    /\ followers[t] = <<u>> /\ following[u] = <<t>>
    /\ FollowStatus(u, t) = 400 /\ FollowStatus(u, u) = 400
    /\ FollowStatus(t, u) = 200


\* the creator of an existing group is a member with role admin and is in
\* the admins list
CreatorIsAdmin(g) ==
  g.exists =>
    /\ \E i \in 1..Len(g.members) :
         g.members[i] = [user |-> g.creator, role |-> "admin"]
    /\ g.creator \in SetOf(g.admins)

\* C18: through group creation, update, join and leave the creator of every
\* group stays in members with role admin and in admins; creation installs
\* the creator as the only member and the only admin; a leave request by
\* the creator is answered 400 and changes nothing.
C18_CreatorStaysAdmin ==
  [][/\ \A gid \in GroupIds :
          CreatorIsAdmin(groups[gid]) /\ CreatorIsAdmin(groups[gid])'
     /\ \A u \in Users, gid \in GroupIds, pr \in Privacies :
          CreateGroup(u, gid, pr) =>
            /\ groups'[gid].creator = u
            /\ groups'[gid].members = <<[user |-> u, role |-> "admin"]>>
            /\ groups'[gid].admins = <<u>>
     /\ \A gid \in GroupIds :
          groups[gid].exists /\ LeaveGroup(groups[gid].creator, gid) =>
            /\ LeaveStatus(groups[gid].creator, gid) = 400
            /\ UNCHANGED <<groups, userGroups>>]_vars

\* a group with its creator and a member who joined; the creator's leave
\* request is the 400 one, the member's is not
C18_Witness ==
  \E gid \in GroupIds, u \in Users :
    /\ groups[gid].exists /\ groups[gid].creator # u
    /\ Len(groups[gid].members) = 2 /\ IsMember(groups[gid], u)
    /\ LeaveStatus(groups[gid].creator, gid) = 400
    /\ LeaveStatus(u, gid) = 200

\* C19: a join request by a non-member adds the caller to members directly
\* only when the group is public; on a private group it appends a pending
\* request and leaves members and the caller's groups list as they were; a
\* join request by a member is answered 400 and changes nothing.
C19_JoinDirectOnlyWhenPublic ==
  [][\A u \in Users, gid \in GroupIds :
       JoinGroup(u, gid) =>
         /\ ~IsMember(groups[gid], u) /\ IsMember(groups'[gid], u) =>
              groups[gid].privacy = "public"
         /\ JoinStatus(u, gid) = 200 /\ groups[gid].privacy = "private" =>
              /\ groups'[gid].pendingRequests =
                   Append(groups[gid].pendingRequests, u)
              /\ groups'[gid].members = groups[gid].members
              /\ UNCHANGED userGroups
         /\ IsMember(groups[gid], u) =>
              /\ JoinStatus(u, gid) = 400
              /\ UNCHANGED <<groups, userGroups>>]_vars

\* C20: a post that carries a group reference is created only by a user who
\* is a member of that group at that moment and, when the group has
\* allowMemberPosts false, only by a moderator, an admin or the creator;
\* whichever route created the post.
C20_GroupPostsOnlyByMembers ==
  [][Len(posts') > Len(posts) =>
       LET post == posts'[Len(posts')]
           g == groups[post.group]
       IN post.group # NoGroup =>
            /\ IsMember(g, post.author)
            /\ g.allowMemberPosts \/ IsModerator(g, post.author)]_vars


\* groupSchema.virtual('memberCount'): members.length
MemberCount(g) == Len(g.members)

\* C21: join requests that interleave leave every user in members of a
\* group at most once, and memberCount counts every member once.
C21_ConcurrentJoinAddsOnce ==
  \A gid \in GroupIds :
    /\ \A u \in Users :
         Cardinality({i \in 1..Len(groups[gid].members) :
                        groups[gid].members[i].user = u}) <= 1
    /\ MemberCount(groups[gid])
         = Cardinality({groups[gid].members[i].user :
                          i \in 1..Len(groups[gid].members)})


\* C22: a campaign whose endDate is not later than the clock has daysLeft 0
\* and isActive false whatever its status; daysLeft is greater than 0
\* exactly while endDate is ahead, and isActive is true exactly when status
\* is active, daysLeft is greater than 0 and raised is less than goal.
C22_EndedCampaignNotActive ==
  \A cid \in CampaignIds :
    LET c == campaigns[cid]
    IN c.exists =>
         /\ c.endDate <= now => DaysLeft(c) = 0 /\ ~IsActive(c)
         /\ DaysLeft(c) >= 0
         /\ DaysLeft(c) > 0 <=> c.endDate > now
         /\ IsActive(c) <=>
              c.status = "active" /\ DaysLeft(c) > 0 /\ c.raised < c.goal

\* the end date of a campaign whose status is still active lies more than a
\* day behind the clock
C22_Witness ==
  \E cid \in CampaignIds :
    /\ campaigns[cid].exists /\ campaigns[cid].status = "active"
    /\ campaigns[cid].raised < campaigns[cid].goal
    /\ campaigns[cid].endDate > 0
    /\ campaigns[cid].endDate + MinutesPerDay < now
    /\ DaysLeft(campaigns[cid]) = 0 /\ ~IsActive(campaigns[cid])


\* the fields of a campaign the edit route never writes
ProtectedFields ==
  {"goal", "raised", "donations", "donorCount", "status", "endDate",
   "organizer"}

\* C24: PUT /campaigns/:id by anyone other than the organizer is answered
\* 403 and changes nothing; by the organizer it writes the allowed fields
\* the body holds and leaves goal, raised, donations, donorCount, status,
\* endDate and organizer as they were, whatever the body holds.
C24_EditTouchesAllowedFieldsOnly ==
  [][\A u \in Users, cid \in CampaignIds, body \in UpdateBodies :
       UpdateCampaign(u, cid, body) =>
         /\ campaigns[cid].organizer # u =>
              /\ UpdateCampaignStatus(u, cid) = 403
              /\ UNCHANGED campaigns
         /\ campaigns[cid].organizer = u =>
              /\ UpdateCampaignStatus(u, cid) = 200
              /\ \A f \in AllowedUpdates \cap DOMAIN body :
                   campaigns'[cid][f] = body[f]
         /\ \A f \in ProtectedFields : campaigns'[cid][f] = campaigns[cid][f]
         /\ \A f \in DOMAIN campaigns[cid] \ DOMAIN body :
              campaigns'[cid][f] = campaigns[cid][f]]_vars

\* the organizer's edit whose body also named goal, status and organizer
\* went through: new title, tags untouched, the protected fields as created
C24_Witness ==
  \E cid \in CampaignIds :
    /\ campaigns[cid].exists
    /\ campaigns[cid].title # FirstTitle /\ campaigns[cid].tags = <<>>
    /\ campaigns[cid].goal = MinGoal /\ campaigns[cid].status = "active"
    /\ campaigns[cid].organizer = "u1"
    /\ UpdateCampaignStatus("u2", cid) = 403

\* C25: POST /campaigns stores a campaign only when goal is at least 100 and
\* endDate is later than the clock; a request with a smaller goal or with an
\* endDate that is not later than the clock stores nothing.
C25_CreateNeedsFutureEndDate ==
  [][\A u \in Users, cid \in CampaignIds, goal \in GoalInputs,
        endDate \in EndDateInputs :
       CreateCampaign(u, cid, goal, endDate) =>
         IF goal >= MinGoal /\ endDate > now
         THEN campaigns'[cid] = NewCampaign(u, goal, endDate)
         ELSE UNCHANGED campaigns]_vars

\* C27: while the status of a campaign is not active no step appends a
\* donation to it or increases raised, whichever route records the payment
\* and whenever its payment intent was created.
C27_NoDonationUnlessActive ==
  [][\A cid \in CampaignIds :
       campaigns[cid].exists /\ campaigns[cid].status # "active" =>
         /\ campaigns'[cid].donations = campaigns[cid].donations
         /\ campaigns'[cid].raised = campaigns[cid].raised]_vars


\* C30: soft deletion is author-only and permanent: DELETE /posts/:id by a
\* user who is not the author of a live post is answered 403 and changes
\* nothing, by the author it sets isDeleted; a deleted post is never
\* changed again (isDeleted, content, likes, comments, shares, bookmarks)
\* and get, edit, delete, like, comment, delete comment, bookmark and share
\* on it are answered 404.
C30_SoftDeleteIsPermanent ==
  [][\A id \in PostIds :
       /\ posts[id].isDeleted =>
            /\ posts'[id] = posts[id]
            /\ ByIdStatus(id) = 404
            /\ \A v \in Viewers : GetPost(v, id) = {}
            /\ \A u \in Users :
                 /\ OwnerStatus(u, id) = 404
                 /\ \A k \in 1..MaxComments : DeleteCommentStatus(u, id, k) = 404
       /\ \A u \in Users :
            ~posts[id].isDeleted /\ DeletePost(u, id) =>
              IF posts[id].author = u
              THEN posts' = [posts EXCEPT ![id].isDeleted = TRUE]
              ELSE OwnerStatus(u, id) = 403 /\ UNCHANGED posts]_vars

\* a deleted post that had been edited, liked, commented, bookmarked and
\* shared before
C30_Witness ==
  \E id \in PostIds :
    /\ posts[id].isDeleted
    /\ posts[id].content = EditedContent
    /\ posts[id].likes # <<>> /\ posts[id].comments # <<>>
    /\ posts[id].shares # <<>> /\ posts[id].bookmarkedBy # <<>>
    /\ OwnerStatus(posts[id].author, id) = 404


\* likes + 2 * comments + 3 * shares of a post
Score(id) ==
  Len(posts[id].likes) + 2 * Len(posts[id].comments)
    + 3 * Len(posts[id].shares)

\* public, not of a group, not deleted, created in the last 24 hours
Qualifies(id) ==
  /\ posts[id].visibility = "public" /\ posts[id].group = NoGroup
  /\ ~posts[id].isDeleted
  /\ now - posts[id].createdAt <= MinutesPerDay

\* position of a post in a trending answer, 0 when it is not in it
Rank(r, id) ==
  IF \E i \in 1..Len(r) : r[i] = id
  THEN CHOOSE i \in 1..Len(r) : r[i] = id
  ELSE 0

\* C23: every answer of trending retrieval holds only public, non-group,
\* non-deleted posts created in the last 24 hours, each once, in descending
\* order of likes + 2 * comments + 3 * shares, cut to the limit with no
\* post left out for one of lower score; a post with 10 likes, 5 comments
\* and 2 shares is placed before one with 15 likes and nothing else.
C23_TrendingRanksByWeightedScore ==
  \A limit \in TrendingLimits : \A r \in GetTrendingPosts(limit) :
    /\ \A i \in 1..Len(r) : r[i] \in PostIds /\ Qualifies(r[i])
    /\ \A i \in 1..Len(r), j \in 1..Len(r) :
         i < j => r[i] # r[j] /\ Score(r[i]) >= Score(r[j])
    /\ Len(r) <= limit
    /\ \A id \in PostIds :
         Qualifies(id) /\ Rank(r, id) = 0 =>
           /\ Len(r) = limit
           /\ \A i \in 1..Len(r) : Score(r[i]) >= Score(id)
    /\ \A a \in PostIds, b \in PostIds :
         /\ Qualifies(a) /\ Qualifies(b)
         /\ Len(posts[a].likes) = 10 /\ Len(posts[a].comments) = 5
         /\ Len(posts[a].shares) = 2
         /\ Len(posts[b].likes) = 15 /\ Len(posts[b].comments) = 0
         /\ Len(posts[b].shares) = 0
         => /\ Score(a) = 26 /\ Score(b) = 15
            /\ Rank(r, a) # 0
            /\ Rank(r, b) # 0 => Rank(r, a) < Rank(r, b)

\* the collection holds the post with 10 likes, 5 comments and 2 shares
\* after the one with 15 likes, both half a day old, and the answer cut to
\* one post is the former
C23_Witness ==
  /\ Len(posts) = 2 /\ now = HalfDay
  /\ Qualifies(1) /\ Qualifies(2)
  /\ Score(1) = 15 /\ Len(posts[1].likes) = 15
  /\ Score(2) = 26 /\ Len(posts[2].likes) = 10
  /\ GetTrendingPosts(1) = {<<2>>}
  /\ GetTrendingPosts(DefaultLimit) = {<<2, 1>>}


\* a is in the followers of b exactly when b is in the following of a, and
\* no list holds a user twice
FollowSymmetric ==
  /\ \A a \in Users, b \in Users :
       a \in SetOf(followers[b]) <=> b \in SetOf(following[a])
  /\ \A a \in Users :
       /\ Cardinality(SetOf(followers[a])) = Len(followers[a])
       /\ Cardinality(SetOf(following[a])) = Len(following[a])

\* C29: before and after every follow and unfollow request the follow
\* relation is symmetric (A in the followers of B exactly when B in the
\* following of A) and no list holds a user twice; an unfollow request for
\* a user the caller does not follow changes neither list.
C29_FollowRelationSymmetric ==
  [][/\ FollowSymmetric /\ FollowSymmetric'
     /\ \A u \in Users, t \in Users :
          Unfollow(u, t) /\ u \notin SetOf(followers[t]) =>
            UNCHANGED <<followers, following>>]_vars

\* two users follow each other
C29_Witness ==
  /\ followers["u1"] = <<"u2">> /\ following["u1"] = <<"u2">>
  /\ followers["u2"] = <<"u1">> /\ following["u2"] = <<"u1">>


\* a reset token that was issued, never accepted, is younger than ten
\* minutes and was not replaced by a later one for the same user
LiveResetToken(token) ==
  /\ token \in 1..Len(resets)
  /\ resets[token].accepted = 0
  /\ now < resets[token].issuedAt + ResetMinutes
  /\ \A k \in 1..Len(resets) :
       k > token => resets[k].user # resets[token].user

\* C26: reset-password accepts a token issued by forgot-password at most
\* once and only before its expiry: the accepted request stores the new
\* password and clears the token hash and the expiry; a request with a token
\* that was used, has expired, was replaced by a later forgot-password
\* request or was never issued is answered 400 and changes no user.
C26_ResetTokenSingleUse ==
  [][/\ \A k \in 1..Len(resets') : resets'[k].accepted <= 1
     /\ \A token \in 0..Len(resets), pw \in ResetPasswords :
          ResetPassword(token, pw) =>
            IF LiveResetToken(token) /\ pw \in Passwords
            THEN LET id == resets[token].user
                 IN /\ reply'.status = 200
                    /\ accounts'[id].password = Hash(pw)
                    /\ accounts'[id].passwordResetToken = NoResetToken
                    /\ accounts'[id].passwordResetExpires = NoDate
                    /\ ~LiveResetToken(token)'
            ELSE /\ reply'.status = 400
                 /\ UNCHANGED accounts]_vars

\* the second of two tokens issued to a user was accepted, the first one
\* never, and the password is the new one
C26_Witness ==
  /\ Len(resets) = 2
  /\ resets[1].user = resets[2].user
  /\ resets[1].accepted = 0 /\ resets[2].accepted = 1
  /\ accounts[resets[2].user].password = Hash("letmein99")
  /\ accounts[resets[2].user].passwordResetToken = NoResetToken
  /\ reply.op = "reset-password" /\ reply.status = 400


\* the user is premium in the state
Premium(id) == id \in UserIds /\ IsPremium(accounts[id])

\* the user's subscriptionStatus is active in the state
StatusActive(id) ==
  id \in UserIds /\ accounts[id].subscriptionStatus = "active"

\* a verified billing event that sets the user's subscriptionStatus to
\* active: checkout completed, or subscription created/updated with status
\* active
Activates(ev, id) ==
  \/ ev.type = "checkout.session.completed" /\ ev.userId = id
  \/ /\ ev.type \in UpdateTypes /\ ev.status = "active"
     /\ id \in UserIds /\ accounts[id].stripeCustomerId = ev.customer

\* C28: a user becomes premium, and a subscriptionStatus becomes active,
\* only in a step of a verified billing webhook (checkout completed, or
\* subscription created/updated with status active); a user whose
\* subscriptionEndDate has passed is not premium; registering with either
\* tier and updating the profile make nobody premium, and requirePremium
\* passes only for a premium user.
C28_PremiumOnlyByVerifiedBilling ==
  [][/\ \A id \in 1..MaxUsers :
          \/ Premium(id)' /\ ~Premium(id)
          \/ StatusActive(id)' /\ ~StatusActive(id)
          => \E ev \in PremiumEvents :
               Activates(ev, id) /\ Webhook(ev, WebhookSecret)
     /\ \A id \in 1..MaxUsers :
          (/\ id \in UserIds
           /\ accounts[id].subscriptionEndDate # NoDate
           /\ accounts[id].subscriptionEndDate <= now)' => ~Premium(id)'
     /\ \A e \in Emails, t \in Tiers :
          Register(e, "secret123", t) =>
            /\ reply'.status = 201 => ~reply'.profile.isPremium
            /\ \A id \in 1..MaxUsers : Premium(id)' => Premium(id)
     /\ \A token \in Bearer, body \in ProfileBodies :
          UpdateProfile(token, body) =>
            \A id \in UserIds :
              /\ Premium(id)' = Premium(id)
              /\ accounts'[id].tier = accounts[id].tier
              /\ accounts'[id].subscriptionStatus =
                   accounts[id].subscriptionStatus
              /\ accounts'[id].subscriptionEndDate =
                   accounts[id].subscriptionEndDate
     /\ \A token \in Bearer :
          PremiumRequest(token) /\ reply'.next = 1 =>
            Premium(token.userId) /\ StatusActive(token.userId)]_vars

\* a user whom a billing event made premium and whose subscriptionEndDate
\* has passed, next to a user who registered with tier premium, sent the
\* billing fields in a profile update and is refused by requirePremium
C28_Witness ==
  /\ Len(accounts) = 2
  /\ accounts[1].tier = "premium"
  /\ accounts[1].subscriptionStatus = "active"
  /\ accounts[1].subscriptionEndDate # NoDate
  /\ accounts[1].subscriptionEndDate <= now
  /\ accounts[2].tier = "premium"
  /\ accounts[2].subscriptionStatus = "none"
  /\ accounts[2].name = NewName
  /\ held.access.userId = 2
  /\ reply.op = "requirePremium" /\ reply.status = 403

====
